---- MODULE Spec2Model ----
(***************************************************************************)
(* Model of shimmer.                                                       *)
(*                                                                         *)
(* The PSI handshake protocol (src/src/protocols/psi/psi.ts):              *)
(* PSIProtocol.initiatePSI, PSIProtocol.handleIncomingPSI, actAsClient,    *)
(* actAsServer, the peer-store helpers markOngoing / unmarkOngoing /       *)
(* isOngoing, and the psi:complete listener of Shimmer that writes the     *)
(* PeerRegistry: specifications Spec, ReliableSpec and TwoPeerSpec.        *)
(*                                                                         *)
(* The Sketcher (src/src/sketcher/sketcher.ts, sketch.ts) with its expiry  *)
(* timers and the expire listener of Shimmer: specification SketcherSpec.  *)
(*                                                                         *)
(* The pure functions: Sketcher.calculateEpoch (specification EpochSpec),  *)
(* and minHash / lshTags of src/src/crypto.ts as Sketcher.sketch calls     *)
(* them (specification TagSpec).                                           *)
(*                                                                         *)
(* Every action is one run of the JavaScript event loop between two        *)
(* suspension points (await): the code of a handler from the completion    *)
(* of the awaited operation up to the next await.                          *)
(***************************************************************************)
EXTENDS Integers, Sequences, FiniteSets, TLC

\* ---------------------------------------------------------------- bounds
MaxFaults == 1     \* disturbances in one behaviour: transport faults, malformed
                   \* frames, deadlines that fire, sketches that expire
MaxTicks == 5      \* the clock of the Sketcher advances at most this many times
MaxDestroys == 2   \* invocations of Sketcher.destroy in one behaviour
MaxK == 4          \* k of a modality: the length of a minHash signature
MaxBands == 2      \* bands of a modality
MaxOps == 3        \* operations on the peer registry

Nodes == {"a", "b"}
Peers == Nodes \cup {"c"}    \* every peer identity of the peer store and registry
Calls == {1, 2}              \* the two invocations of initiatePSI of a behaviour
Sides == {"I", "H"}          \* initiator (initiatePSI) / acceptor (handleIncomingPSI)
HS == Calls \X Sides         \* one handshake = one side of one stream
NoCall == [from |-> "none", to |-> "none"]

\* the four frames of a full exchange, in the order of psiExecution on both ends
Expected == << <<"I", "req">>, <<"H", "resp">>, <<"H", "req">>, <<"I", "resp">> >>

VARIABLES
  ongoing,      \* peerStore metadata "shimmer/psi/ongoing": ongoing[n][p]
  sketches,     \* Sketcher.sketches of node n: id of the valid sketch, 0 = none
  conn,         \* conn[c]: the nodes of call c (NoCall = not invoked yet)
  pc,           \* position of initiatePSI / handleIncomingPSI
  exec,         \* position of the psiExecution closure
  outcome,      \* how the handshake's promise settled ("none" = not yet)
  marked,       \* this handshake has run markOngoing
  emitted,      \* psi:complete events dispatched by this handshake
  rounds,       \* roles (actAsClient / actAsServer) this handshake completed
  usedSketch,   \* sketch of the requester role (parameter / usedSketch)
  frames,       \* frames written on stream c, in order: <<side, kind>>
  rd,           \* frames this end has read from the stream
  closeCalls,   \* stream.close() invocations on this end
  abortCalls,   \* stream.abort(err) invocations on this end
  abortErr,     \* the error of the last stream.abort
  arrived,      \* was the acceptor's marker already set when stream c arrived
  faults,       \* disturbances so far (bounded by MaxFaults)
  registry,     \* Shimmer.peerRegistry of node n: registry[n][p] = its ProximityPeer
  deadline,     \* the setTimeout timer of this handshake's timeoutPromise
  \* ---- one Sketcher, one modality (SketcherSpec)
  now,          \* Date.now(), in milliseconds
  sketchMap,    \* Sketcher.sketches.get(modality): the id of the sketch, 0 = none
  call,         \* call[c]: the c-th invocation of Sketcher.sketch
  sketchObj,    \* sketchObj[i]: the Sketch with id i, its timer and its events
  withdraws,    \* rendezvous.withdraw(sketch.tags) started / finished, per sketch
  destroyCalls, \* invocations of Sketcher.destroy
  \* ---- calculateEpoch (EpochSpec)
  epochCfg,     \* epochInterval of the modality, per Sketcher
  epochRun,     \* the last calculateEpoch of each Sketcher: its instant and result
  \* ---- minHash and lshTags (TagSpec)
  tagCfg,       \* k and bands of the modality, per Sketcher
  tagRun,       \* the last tag computation of each Sketcher: its input and result
  \* ---- the digest input of sha256biguint64 / sha256base64url (JoinSpec)
  joinRun,      \* the last hash call of each caller: its arguments and the input
  \* ---- PeerRegistry and ProximityPeer in time (RegistrySpec)
  clock,        \* Date.now(), in milliseconds
  peerMap,      \* PeerRegistry.peers: peerMap[p] = the ProximityPeer of p
  lastOp,       \* the operation that ran last on the registry, and its arguments
  ops,          \* operations on the registry so far (bounded by MaxOps)
  \* ---- InMemoryEncryptedRendezVous (RendezvousSpec)
  rdvNow,       \* Date.now(), in milliseconds
  sketchOf,     \* the sketch of each node's Sketcher: its items, tags, expiresAt
  rdvRegistry,  \* InMemoryEncryptedRendezVous.registry: the entries of each tag
  annCall,      \* the calls of announce: their position in the loop over tags
  discCall,     \* the calls of discover: their tags, position and results
  \* ---- the PSI handles and the content of one exchange (ExchangeSpec)
  sketchLog,    \* the sketches that the Sketchers of the two nodes have stored
  handles,      \* the PSIServer / PSIClient instances, in the order of `new`
  role,         \* each end of the stream: its position, sketches, handles, result
  lastCall      \* a call on a handle from outside a handshake, and how it ended

psiVars == << ongoing, sketches, conn, pc, exec, outcome, marked, emitted,
              rounds, usedSketch, frames, rd, closeCalls, abortCalls, abortErr,
              arrived, faults, registry, deadline >>
sketcherVars == << now, sketchMap, call, sketchObj, withdraws, destroyCalls >>
epochVars == << epochCfg, epochRun >>
tagVars == << tagCfg, tagRun >>
restVars == << joinRun, clock, peerMap, lastOp, ops,
               rdvNow, sketchOf, rdvRegistry, annCall, discCall >>
exchVars == << sketchLog, handles, role, lastCall >>
vars == << psiVars, sketcherVars, epochVars, tagVars, restVars, exchVars >>

\* ---------------------------------------------------------------- helpers
Other(s) == IF s = "I" THEN "H" ELSE "I"
Remote(h) == << h[1], Other(h[2]) >>
\* the local node of a handshake and the remote peer it talks to
NodeOf(h) == IF h[2] = "I" THEN conn[h[1]].from ELSE conn[h[1]].to
PeerOf(h) == IF h[2] = "I" THEN conn[h[1]].to ELSE conn[h[1]].from

IsPrefix(s, t) == Len(s) <= Len(t) /\ \A i \in 1..Len(s) : s[i] = t[i]

\* frames the other end has written to this end
Inbox(h) == SelectSeq(frames[h[1]], LAMBDA f : f[1] = Other(h[2]))
Available(h) == Len(Inbox(h)) > rd[h]
NextFrame(h) == Inbox(h)[rd[h] + 1]

LocalClosed(h) == closeCalls[h] > 0
LocalAborted(h) == abortCalls[h] > 0
RemoteClosed(h) == closeCalls[Remote(h)] > 0
RemoteAborted(h) == abortCalls[Remote(h)] > 0

\* ---------------------------------------------------------------- initial values
\* a ProximityPeer the registry does not hold / holds: its retained sketches and
\* the sketches it has a PSI result for
NoEntry == [known |-> FALSE, sketches |-> {}, psiResults |-> {}]

\* the handshake protocol and the registry after construction
PsiInit ==
  /\ ongoing = [n \in Peers |-> [p \in Peers |-> FALSE]]
  /\ sketches = [n \in Peers |-> 0]
  /\ conn = [c \in Calls |-> NoCall]
  /\ pc = [h \in HS |-> "idle"]
  /\ exec = [h \in HS |-> "none"]
  /\ outcome = [h \in HS |-> "none"]
  /\ marked = [h \in HS |-> FALSE]
  /\ emitted = [h \in HS |-> 0]
  /\ rounds = [h \in HS |-> 0]
  /\ usedSketch = [h \in HS |-> 0]
  /\ frames = [c \in Calls |-> << >>]
  /\ rd = [h \in HS |-> 0]
  /\ closeCalls = [h \in HS |-> 0]
  /\ abortCalls = [h \in HS |-> 0]
  /\ abortErr = [h \in HS |-> "none"]
  /\ arrived = [c \in Calls |-> FALSE]
  /\ faults = 0
  /\ registry = [n \in Peers |-> [p \in Peers |-> NoEntry]]
  /\ deadline = [h \in HS |-> "none"]

\* the invocations of Sketcher.sketch of a behaviour; the sketch created by the
\* c-th invocation has id c (crypto.randomUUID() never repeats)
SketchCalls == {1, 2, 3}
IdleCall == [st |-> "idle", existing |-> 0, epoch |-> << >>, expiresAt |-> 0]
NoSketch == [made |-> FALSE, epoch |-> << >>, expiresAt |-> 0, timer |-> "none",
             expire |-> 0, announced |-> 0]
NoWithdraw == [started |-> 0, done |-> 0]

\* new Sketcher(config): an empty map, nothing pending
SketcherInit ==
  /\ now = 0
  /\ sketchMap = 0
  /\ call = [c \in SketchCalls |-> IdleCall]
  /\ sketchObj = [i \in SketchCalls |-> NoSketch]
  /\ withdraws = [i \in SketchCalls |-> NoWithdraw]
  /\ destroyCalls = 0

\* two Sketchers (alice and bob of test/sketcher.test.ts)
Slots == {1, 2}
NoEpochRun == [done |-> FALSE, at |-> 0, threw |-> FALSE, epoch |-> << >>]
EpochIdle ==
  /\ epochCfg = [s \in Slots |-> << "5", "m" >>]
  /\ epochRun = [s \in Slots |-> NoEpochRun]

NoTagRun == [done |-> FALSE, modality |-> << >>, items |-> << >>, at |-> 0,
             salt |-> << >>, signature |-> << >>, threw |-> FALSE,
             publicTags |-> << >>, preImages |-> << >>]
TagIdle ==
  /\ tagCfg = [s \in Slots |-> [k |-> 64, bands |-> 32]]
  /\ tagRun = [s \in Slots |-> NoTagRun]

\* the local sketches that peers are discovered under: four modalities with
\* epoch intervals of 1 s, 1 s, 2 s and 122 s, sketched at instant 0; a Sketch
\* expires at the end of its epoch
LocalSketches == {1, 2, 3, 4}
ExpiresAt == << 1000, 1000, 2000, 122000 >>

\* psiResults.get(id): undefined, or a PSIResult with its completedAt
NoResult == [set |-> FALSE, completedAt |-> 0]
\* a peer that is not in the map; new ProximityPeer(peerInfo) has the same
\* empty maps
NoPeer == [known |-> FALSE, sketches |-> << >>,
           psiResults |-> [i \in LocalSketches |-> NoResult]]

\* no PSIResult yet
NoPSIResult == [set |-> FALSE, intersectionSize |-> 0, totalItems |-> 0,
                isNaN |-> FALSE, similarity |-> 0]

\* the calls of announce of a node: the one of the auto-announce listener and
\* one of Shimmer.announce; the calls of discover
AnnCalls == Nodes \X {"auto", "manual"}
DiscCalls == {1}
NoTags == [publicTags |-> << >>, preImages |-> << >>]

\* no hash call yet; new PeerRegistry(): no peer; new
\* InMemoryEncryptedRendezVous(): an empty registry, no sketch, no call
RestIdle ==
  /\ joinRun = [s \in Slots |-> [done |-> FALSE, args |-> << >>, input |-> << >>]]
  /\ clock = 0
  /\ peerMap = [p \in Nodes |-> NoPeer]
  /\ lastOp = [op |-> "none", peer |-> "none", sketch |-> 0]
  /\ ops = 0
  /\ rdvNow = 0
  /\ sketchOf = [p \in Nodes |->
       [made |-> FALSE, items |-> << >>, tags |-> NoTags, expiresAt |-> 0]]
  /\ rdvRegistry = << >>
  /\ annCall = [a \in AnnCalls |-> [st |-> "idle", i |-> 0]]
  /\ discCall = [d \in DiscCalls |->
       [st |-> "idle", caller |-> "none", tags |-> NoTags, now |-> 0,
        i |-> 0, j |-> 0, results |-> << >>]]
  \* no sketch stored, no handle created, both ends of the stream idle
  /\ sketchLog = [i \in SketchCalls |-> [made |-> FALSE, node |-> "none", items |-> << >>]]
  /\ handles = << >>
  /\ role = [s \in Sides |->
       [st |-> "idle", sketch |-> 0, served |-> 0, client |-> 0, server |-> 0,
        result |-> NoPSIResult, event |-> 0]]
  /\ lastCall = [handle |-> 0, op |-> "none", used |-> FALSE, threw |-> FALSE]

Init == PsiInit /\ SketcherInit /\ EpochIdle /\ TagIdle /\ RestIdle

\* ---------------------------------------------------------------- peer store
\* isOngoing: Boolean(store.metadata.get("shimmer/psi/ongoing"))
isOngoing(n, p) == ongoing[n][p]

\* (mutant) one marker for the whole store instead of one per peer
markOngoingEveryPeer(n, p) == [ongoing EXCEPT ![n] = [q \in Peers |-> TRUE]]

\* markOngoing: peerStore.merge(peerId, {metadata: {ongoing: new Uint8Array()}})
markOngoing(n, p) == [ongoing EXCEPT ![n][p] = TRUE]

\* (mutant) the marker is left in the store
unmarkOngoingSkips(n, p) == ongoing

\* unmarkOngoing: peerStore.merge(peerId, {metadata: {ongoing: undefined}})
unmarkOngoing(n, p) == [ongoing EXCEPT ![n][p] = FALSE]

\* ---------------------------------------------------------------- sketcher
\* Sketcher.getCurrentSketch: the stored sketch if it is valid, else nothing (0)
getCurrentSketch(n) == sketches[n]

\* Sketcher.sketch: installs a new sketch (a fresh id) for the modality
SketcherSketch(n) ==
  /\ sketches[n] = 0
  /\ UNCHANGED << registry, sketcherVars, epochVars, tagVars, restVars, deadline, exchVars >>
  /\ sketches' = [sketches EXCEPT ![n] = 1]
  /\ UNCHANGED << ongoing, conn, pc, exec, outcome, marked, emitted, rounds,
                  usedSketch, frames, rd, closeCalls, abortCalls, abortErr,
                  arrived, faults >>

\* the sketch stops being valid (expiry timer, or now >= expiresAt in isValid)
SketcherExpire(n) ==
  /\ sketches[n] # 0
  /\ UNCHANGED << registry, sketcherVars, epochVars, tagVars, restVars, deadline, exchVars >>
  /\ faults < MaxFaults
  /\ faults' = faults + 1
  /\ sketches' = [sketches EXCEPT ![n] = 0]
  /\ UNCHANGED << ongoing, conn, pc, exec, outcome, marked, emitted,
                  rounds, usedSketch, frames, rd, closeCalls, abortCalls,
                  abortErr, arrived >>

\* ---------------------------------------------------------------- peer registry
\* PeerRegistry.addPeer(peerInfo, sketch): get or create the ProximityPeer, then
\* ProximityPeer.addSketch(sketch). The eviction that addSketch runs removes
\* sketches that expired more than 60 s ago; the sketch of a handshake is younger.
addPeer(reg, p, s) ==
  [reg EXCEPT ![p] = [known |-> TRUE, sketches |-> @.sketches \cup {s},
                      psiResults |-> @.psiResults]]

\* ProximityPeer.setPSIResult(sketch, result)
setPSIResult(reg, p, s) == [reg EXCEPT ![p].psiResults = @ \cup {s}]

\* the psi:complete listener of Shimmer, run by dispatchEvent on node n
psiCompleteListener(n, p, s) ==
  [registry EXCEPT ![n] = setPSIResult(addPeer(@, p, s), p, s)]

\* (mutant) the earlier design: a failed handshake is recorded as a result of
\* similarity 0
OnFailureRecordsZero(h) == psiCompleteListener(NodeOf(h), PeerOf(h), usedSketch[h])

\* a rejected race: the catch blocks of initiatePSI / handleIncomingPSI log and
\* rethrow, the catch of the handler registered by PSIProtocol.start logs; none
\* dispatches an event, so no listener runs
OnFailure(h) == registry

\* ---------------------------------------------------------------- race / finally
\* (mutant) an error is swallowed into a zero-similarity result that is reported
EmitsOnAnySettle(res) == 1

\* dispatchEvent("psi:complete") follows `await Promise.race` only: a rejection
\* jumps over it to catch
Emits(res) == IF res = "result" THEN 1 ELSE 0

\* Promise.race is still pending: initiatePSI / handleIncomingPSI is suspended at it
RacePending(h) == pc[h] = "race"

\* (mutant) psiExecution dispatches psi:complete itself when it ends with a result
RaceSettlesInsideExec(h, res) ==
  /\ emitted' = [emitted EXCEPT ![h] = @ + Emits(res)]
  /\ registry' = IF Emits(res) = 1
                 THEN psiCompleteListener(NodeOf(h), PeerOf(h), usedSketch[h])
                 ELSE registry
  /\ IF RacePending(h)
     THEN /\ outcome' = [outcome EXCEPT ![h] = res]
          /\ closeCalls' = [closeCalls EXCEPT ![h] = @ + 1]
          /\ pc' = [pc EXCEPT ![h] = "unmark"]
     ELSE UNCHANGED << outcome, closeCalls, pc >>

\* Promise.race settles with res (a result, or the error of a rejection): the
\* continuation dispatches psi:complete on a result (its listener writes the
\* registry), then the finally block calls stream.close() and starts
\* unmarkOngoing. A settled race ignores later settlements.
RaceSettles(h, res) ==
  IF RacePending(h)
  THEN /\ outcome' = [outcome EXCEPT ![h] = res]
       /\ emitted' = [emitted EXCEPT ![h] = @ + Emits(res)]
       /\ registry' = IF Emits(res) = 1
                      THEN psiCompleteListener(NodeOf(h), PeerOf(h), usedSketch[h])
                      ELSE OnFailure(h)
       /\ closeCalls' = [closeCalls EXCEPT ![h] = @ + 1]
       /\ pc' = [pc EXCEPT ![h] = "unmark"]
  ELSE UNCHANGED << outcome, emitted, registry, closeCalls, pc >>

\* psiExecution goes on to its next await
Continue(h, e) ==
  /\ exec' = [exec EXCEPT ![h] = e]
  /\ UNCHANGED << outcome, emitted, registry, closeCalls, pc, abortCalls, abortErr >>

\* psiExecution ends: with a result, or with an error thrown in actAsClient /
\* actAsServer (their catch calls stream.abort(err) first: abortWith), or thrown
\* between the roles (abortWith = "none")
ExecEnds(h, res, abortWith) ==
  /\ exec' = [exec EXCEPT ![h] = IF res = "result" THEN "ok" ELSE "failed"]
  /\ abortCalls' = [abortCalls EXCEPT ![h] = IF abortWith # "none" THEN @ + 1 ELSE @]
  /\ abortErr' = [abortErr EXCEPT ![h] = IF abortWith # "none" THEN abortWith ELSE @]
  /\ RaceSettles(h, res)

\* ---------------------------------------------------------------- roles
\* (mutant) both ends start in the requester role
BothClientFirst(side) == "cWrite"

\* the first await of psiExecution: the initiator starts as client (lp.write of
\* its request), the acceptor as server (lp.read of the request)
FirstRole(side) == IF side = "I" THEN "cWrite" ELSE "sRead"

\* the statement after `await this.actAsClient(...)` in psiExecution
AfterClient(h) ==
  IF h[2] = "I"
  THEN \* initiator, step 2: actAsServer, suspended at lp.read
       /\ Continue(h, "sRead")
       /\ UNCHANGED usedSketch
  ELSE \* acceptor: return result
       /\ ExecEnds(h, "result", "none")
       /\ UNCHANGED usedSketch

\* the statement after `await this.actAsServer(...)` in psiExecution
AfterServer(h) ==
  IF h[2] = "I"
  THEN \* initiator: return result
       /\ ExecEnds(h, "result", "none")
       /\ UNCHANGED usedSketch
  ELSE \* acceptor, step 2: usedSketch = getCurrentSketch(modality); a missing
       \* sketch throws outside actAsClient / actAsServer, so nothing aborts
       IF getCurrentSketch(NodeOf(h)) = 0
       THEN /\ ExecEnds(h, "nosketch", "none")
            /\ UNCHANGED usedSketch
       ELSE \* step 3: actAsClient, suspended at lp.write
            /\ Continue(h, "cWrite")
            /\ usedSketch' = [usedSketch EXCEPT ![h] = getCurrentSketch(NodeOf(h))]

\* ---------------------------------------------------------------- stream
\* lp.write can complete: neither end has reset the stream. stream.close() is
\* graceful (a write that is pending when this end closes may still drain), so a
\* closed end leaves both outcomes open
WriteMaySucceed(h) == ~LocalAborted(h) /\ ~RemoteAborted(h)
\* lp.write can reject because of the state of the stream
WriteMayFail(h) ==
  LocalClosed(h) \/ LocalAborted(h) \/ RemoteClosed(h) \/ RemoteAborted(h)
\* lp.read can deliver the next frame
ReadMayDeliver(h) == Available(h) /\ ~LocalAborted(h)
\* lp.read can reject because of the state of the stream: reset, end of stream
\* after the remote's close once its frames are consumed, or this end closed
ReadMayFail(h) ==
  \/ LocalAborted(h)
  \/ LocalClosed(h)
  \/ RemoteAborted(h)
  \/ (RemoteClosed(h) /\ ~Available(h))

\* ---------------------------------------------------------------- initiatePSI
\* initiatePSI(peer, sketch) is invoked on node n for peer p; it runs up to
\* `await isOngoing(...)`
initiatePSI(c, n, p) ==
  /\ conn[c] = NoCall
  /\ UNCHANGED << registry, sketcherVars, epochVars, tagVars, restVars, deadline, exchVars >>
  /\ \A d \in Calls : d < c => conn[d] # NoCall
  /\ n # p
  /\ getCurrentSketch(n) # 0
  /\ conn' = [conn EXCEPT ![c] = [from |-> n, to |-> p]]
  /\ pc' = [pc EXCEPT ![<<c, "I">>] = "check"]
  /\ usedSketch' = [usedSketch EXCEPT ![<<c, "I">>] = getCurrentSketch(n)]
  /\ UNCHANGED << ongoing, sketches, exec, outcome, marked, emitted,
                  rounds, frames, rd, closeCalls, abortCalls, abortErr, arrived,
                  faults >>

\* `await isOngoing(...)` completes, in initiatePSI and in handleIncomingPSI.
\* Already ongoing: the acceptor calls stream.close() and both throw; catch
\* rethrows and finally closes the stream (the acceptor's; the initiator has
\* none yet) and starts unmarkOngoing.
IsOngoingDone(h) ==
  /\ pc[h] = "check"
  /\ UNCHANGED << registry, sketcherVars, epochVars, tagVars, restVars, deadline, exchVars >>
  /\ IF isOngoing(NodeOf(h), PeerOf(h))
     THEN /\ outcome' = [outcome EXCEPT ![h] = "already"]
          /\ closeCalls' = [closeCalls EXCEPT ![h] = IF h[2] = "H" THEN @ + 2 ELSE @]
          /\ pc' = [pc EXCEPT ![h] = "unmark"]
     ELSE /\ pc' = [pc EXCEPT ![h] = "mark"]
          /\ UNCHANGED << outcome, closeCalls >>
  /\ UNCHANGED << ongoing, sketches, conn, exec, marked, emitted,
                  rounds, usedSketch, frames, rd, abortCalls, abortErr, arrived,
                  faults >>

\* `await markOngoing(...)` completes. The initiator goes on to
\* waitForDirectConnection; the acceptor arms its timeout and starts psiExecution,
\* which runs to the lp.read of actAsServer.
MarkOngoingDone(h) ==
  /\ pc[h] = "mark"
  /\ UNCHANGED << registry, sketcherVars, epochVars, tagVars, restVars, exchVars >>
  /\ ongoing' = markOngoing(NodeOf(h), PeerOf(h))
  /\ marked' = [marked EXCEPT ![h] = TRUE]
  /\ IF h[2] = "I"
     THEN /\ pc' = [pc EXCEPT ![h] = "wait"]
          /\ UNCHANGED << exec, deadline >>
     ELSE /\ pc' = [pc EXCEPT ![h] = "race"]
          /\ deadline' = [deadline EXCEPT ![h] = "armed"]
          /\ exec' = [exec EXCEPT ![h] = FirstRole("H")]
  /\ UNCHANGED << sketches, conn, outcome, emitted, rounds, usedSketch,
                  frames, rd, closeCalls, abortCalls, abortErr, arrived, faults >>

\* waitForDirectConnection resolves (a direct connection, or its own 10 s limit:
\* it never rejects); initiatePSI calls connectionManager.openStream
WaitForDirectConnectionDone(c) ==
  /\ pc[<<c, "I">>] = "wait"
  /\ UNCHANGED << registry, sketcherVars, epochVars, tagVars, restVars, deadline, exchVars >>
  /\ pc' = [pc EXCEPT ![<<c, "I">>] = "open"]
  /\ UNCHANGED << ongoing, sketches, conn, exec, outcome, marked,
                  emitted, rounds, usedSketch, frames, rd, closeCalls, abortCalls,
                  abortErr, arrived, faults >>

\* openStream resolves with a stream: the remote registrar invokes
\* handleIncomingPSI, which runs to `await isOngoing`; the initiator arms its
\* timeout and starts psiExecution, which runs to the lp.write of actAsClient
OpenStreamDone(c) ==
  /\ pc[<<c, "I">>] = "open"
  /\ UNCHANGED << registry, sketcherVars, epochVars, tagVars, restVars, exchVars >>
  /\ pc' = [pc EXCEPT ![<<c, "I">>] = "race", ![<<c, "H">>] = "check"]
  /\ deadline' = [deadline EXCEPT ![<<c, "I">>] = "armed"]
  /\ exec' = [exec EXCEPT ![<<c, "I">>] = FirstRole("I")]
  /\ arrived' = [arrived EXCEPT ![c] = isOngoing(conn[c].to, conn[c].from)]
  /\ UNCHANGED << ongoing, sketches, conn, outcome, marked, emitted,
                  rounds, usedSketch, frames, rd, closeCalls, abortCalls, abortErr,
                  faults >>

\* openStream rejects (or yields no stream): stream stays undefined, so finally
\* closes nothing and starts unmarkOngoing
OpenStreamFails(c) ==
  /\ pc[<<c, "I">>] = "open"
  /\ UNCHANGED << registry, sketcherVars, epochVars, tagVars, restVars, deadline, exchVars >>
  /\ faults < MaxFaults
  /\ faults' = faults + 1
  /\ outcome' = [outcome EXCEPT ![<<c, "I">>] = "open"]
  /\ pc' = [pc EXCEPT ![<<c, "I">>] = "unmark"]
  /\ UNCHANGED << ongoing, sketches, conn, exec, marked, emitted,
                  rounds, usedSketch, frames, rd, closeCalls, abortCalls, abortErr,
                  arrived >>

\* ---------------------------------------------------------------- psiExecution
Writing(h) == exec[h] \in {"cWrite", "sWrite"}
Reading(h) == exec[h] \in {"cRead", "sRead"}
\* the frame a role writes, and the frame a role expects to read
KindWritten(e) == IF e = "cWrite" THEN "req" ELSE "resp"
KindExpected(e) == IF e = "cRead" THEN "resp" ELSE "req"

\* `await lp.write(...)` completes. actAsClient goes on to lp.read of the
\* response; actAsServer returns the modality
WriteDone(h) ==
  /\ Writing(h)
  /\ UNCHANGED << sketcherVars, epochVars, tagVars, restVars, deadline, exchVars >>
  /\ WriteMaySucceed(h)
  /\ frames' = [frames EXCEPT ![h[1]] = Append(@, <<h[2], KindWritten(exec[h])>>)]
  /\ IF exec[h] = "cWrite"
     THEN /\ Continue(h, "cRead")
          /\ UNCHANGED << rounds, usedSketch >>
     ELSE /\ rounds' = [rounds EXCEPT ![h] = @ + 1]
          /\ AfterServer(h)
  /\ UNCHANGED << ongoing, sketches, conn, marked, rd, arrived, faults >>

\* a failed stream operation: the catch of actAsClient / actAsServer calls
\* stream.abort(err) and rethrows
RoleThrows(h, err) ==
  /\ ExecEnds(h, err, err)
  /\ UNCHANGED << ongoing, sketches, conn, marked, rounds, usedSketch,
                  frames, arrived >>

\* `await lp.write(...)` rejects because the stream is closed or reset
WriteFails(h) ==
  /\ Writing(h)
  /\ UNCHANGED << sketcherVars, epochVars, tagVars, restVars, deadline, exchVars >>
  /\ WriteMayFail(h)
  /\ RoleThrows(h, "transport")
  /\ UNCHANGED << rd, faults >>

\* `await lp.read()` delivers a frame. actAsClient: parse the response,
\* getIntersectionSize, return the result. actAsServer: parse the request,
\* getCurrentSketch(request.modality) (none: throw), createSetup, processRequest,
\* lp.write of the response. A frame of the other kind lacks the fields the
\* role reads, so Uint8Array.from(undefined) throws.
ReadDone(h) ==
  /\ Reading(h)
  /\ UNCHANGED << sketcherVars, epochVars, tagVars, restVars, deadline, exchVars >>
  /\ ReadMayDeliver(h)
  /\ rd' = [rd EXCEPT ![h] = @ + 1]
  /\ UNCHANGED << ongoing, sketches, conn, marked, frames, arrived, faults >>
  /\ IF NextFrame(h)[2] # KindExpected(exec[h])
     THEN /\ ExecEnds(h, "malformed", "malformed")
          /\ UNCHANGED << rounds, usedSketch >>
     ELSE IF exec[h] = "cRead"
     THEN /\ rounds' = [rounds EXCEPT ![h] = @ + 1]
          /\ AfterClient(h)
     ELSE IF getCurrentSketch(NodeOf(h)) = 0
     THEN /\ ExecEnds(h, "nosketch", "nosketch")
          /\ UNCHANGED << rounds, usedSketch >>
     ELSE /\ Continue(h, "sWrite")
          /\ UNCHANGED << rounds, usedSketch >>

\* `await lp.read()` rejects because the stream is closed or reset
ReadFails(h) ==
  /\ Reading(h)
  /\ UNCHANGED << sketcherVars, epochVars, tagVars, restVars, deadline, exchVars >>
  /\ ReadMayFail(h)
  /\ RoleThrows(h, "transport")
  /\ UNCHANGED << rd, faults >>

\* the transport fails under a pending lp.read / lp.write of a healthy stream
TransportFault(h) ==
  /\ faults < MaxFaults
  /\ UNCHANGED << sketcherVars, epochVars, tagVars, restVars, deadline, exchVars >>
  /\ \/ Writing(h) /\ ~WriteMayFail(h)
     \/ Reading(h) /\ ~ReadMayFail(h)
  /\ faults' = faults + 1
  /\ RoleThrows(h, "transport")
  /\ UNCHANGED rd

\* lp.read delivers a frame that does not parse (JSON.parse throws)
MalformedFrame(h) ==
  /\ faults < MaxFaults
  /\ UNCHANGED << sketcherVars, epochVars, tagVars, restVars, deadline, exchVars >>
  /\ Reading(h)
  /\ ReadMayDeliver(h)
  /\ faults' = faults + 1
  /\ rd' = [rd EXCEPT ![h] = @ + 1]
  /\ RoleThrows(h, "malformed")

\* ---------------------------------------------------------------- timeout, finally
\* the setTimeout callback of an armed timer runs and rejects timeoutPromise.
\* While the race is pending the race rejects, catch rethrows, finally calls
\* stream.close() and starts unmarkOngoing (psiExecution is not told: it stays
\* at its await); after the race has settled the rejection has no effect.
\* Nothing in the code calls clearTimeout.
timeoutCallback(h) ==
  /\ deadline[h] = "armed"
  /\ deadline' = [deadline EXCEPT ![h] = "fired"]
  /\ UNCHANGED << sketcherVars, epochVars, tagVars, restVars, exchVars >>
  /\ RaceSettles(h, "timeout")
  /\ UNCHANGED << ongoing, sketches, conn, exec, marked, rounds,
                  usedSketch, frames, rd, abortCalls, abortErr, arrived >>

\* a deadline that fires before the handshake is through: a disturbance
Timeout(h) ==
  /\ RacePending(h)
  /\ faults < MaxFaults
  /\ faults' = faults + 1
  /\ timeoutCallback(h)

\* the timeout has elapsed: the callback runs, whatever the handshake has
\* come to
TimeoutElapsed(h) ==
  /\ timeoutCallback(h)
  /\ UNCHANGED faults

\* `await unmarkOngoing(...)` in finally completes; the handshake returns
UnmarkOngoingDone(h) ==
  /\ pc[h] = "unmark"
  /\ UNCHANGED << registry, sketcherVars, epochVars, tagVars, restVars, deadline, exchVars >>
  /\ ongoing' = unmarkOngoing(NodeOf(h), PeerOf(h))
  /\ pc' = [pc EXCEPT ![h] = "done"]
  /\ UNCHANGED << sketches, conn, exec, outcome, marked, emitted,
                  rounds, usedSketch, frames, rd, closeCalls, abortCalls, abortErr,
                  arrived, faults >>

\* ---------------------------------------------------------------- specification
Next ==
  \/ \E n \in Nodes : SketcherSketch(n)
  \/ \E n \in Nodes : SketcherExpire(n)
  \/ \E c \in Calls, n, p \in Nodes : initiatePSI(c, n, p)
  \/ \E h \in HS : IsOngoingDone(h)
  \/ \E h \in HS : MarkOngoingDone(h)
  \/ \E c \in Calls : WaitForDirectConnectionDone(c)
  \/ \E c \in Calls : OpenStreamDone(c)
  \/ \E c \in Calls : OpenStreamFails(c)
  \/ \E h \in HS : WriteDone(h)
  \/ \E h \in HS : WriteFails(h)
  \/ \E h \in HS : ReadDone(h)
  \/ \E h \in HS : ReadFails(h)
  \/ \E h \in HS : TransportFault(h)
  \/ \E h \in HS : MalformedFrame(h)
  \/ \E h \in HS : Timeout(h)
  \/ \E h \in HS : UnmarkOngoingDone(h)

Spec == Init /\ [][Next]_vars

\* a reliable stream, valid sketches on both sides, no deadline firing, one
\* handshake between the two nodes at a time
CallsBefore(c) == { d \in Calls : d < c }
ReliableCall ==
  \E c \in Calls, n, p \in Nodes :
    /\ \A m \in Nodes : getCurrentSketch(m) # 0
    /\ \A d \in CallsBefore(c) : pc[<<d, "I">>] = "done" /\ pc[<<d, "H">>] = "done"
    /\ initiatePSI(c, n, p)

\* the steps the event loop runs once their awaited operation has completed
ReliableStep ==
  \/ \E h \in HS : IsOngoingDone(h)
  \/ \E h \in HS : MarkOngoingDone(h)
  \/ \E c \in Calls : WaitForDirectConnectionDone(c)
  \/ \E c \in Calls : OpenStreamDone(c)
  \/ \E h \in HS : WriteDone(h)
  \/ \E h \in HS : ReadDone(h)
  \/ \E h \in HS : UnmarkOngoingDone(h)

ReliableNext ==
  \/ \E n \in Nodes : SketcherSketch(n)
  \/ ReliableCall
  \/ ReliableStep

ReliableSpec == Init /\ [][ReliableNext]_vars /\ WF_vars(ReliableStep)

\* handshakes of node "a" with two peers: the first between "a" and "b",
\* initiated by either end, the second initiated by "a" for "b" or for "c"
\* (discover of Shimmer starts the handshakes of a round without awaiting them)
TwoPeerCall ==
  \E c \in Calls, n, p \in Peers :
    /\ IF c = 1 THEN {n, p} = {"a", "b"} ELSE n = "a"
    /\ initiatePSI(c, n, p)

\* the sketches stay valid: their expiry is of no concern to the markers
TwoPeerNext ==
  \/ \E n \in Peers : SketcherSketch(n)
  \/ TwoPeerCall
  \/ \E h \in HS : IsOngoingDone(h)
  \/ \E h \in HS : MarkOngoingDone(h)
  \/ \E c \in Calls : WaitForDirectConnectionDone(c)
  \/ \E c \in Calls : OpenStreamDone(c)
  \/ \E c \in Calls : OpenStreamFails(c)
  \/ \E h \in HS : WriteDone(h)
  \/ \E h \in HS : WriteFails(h)
  \/ \E h \in HS : ReadDone(h)
  \/ \E h \in HS : ReadFails(h)
  \/ \E h \in HS : TransportFault(h)
  \/ \E h \in HS : MalformedFrame(h)
  \/ \E h \in HS : Timeout(h)
  \/ \E h \in HS : UnmarkOngoingDone(h)

TwoPeerSpec == Init /\ [][TwoPeerNext]_vars

\* one handshake whose timers always fire: the stream may stay silent, be
\* refused or never open, and the transport may fail once
DeadlineNext ==
  \/ \E n \in Nodes : SketcherSketch(n)
  \/ \E n, p \in Nodes : initiatePSI(1, n, p)
  \/ \E h \in HS : IsOngoingDone(h)
  \/ \E h \in HS : MarkOngoingDone(h)
  \/ \E c \in Calls : WaitForDirectConnectionDone(c)
  \/ \E c \in Calls : OpenStreamDone(c)
  \/ \E c \in Calls : OpenStreamFails(c)
  \/ \E h \in HS : WriteDone(h)
  \/ \E h \in HS : WriteFails(h)
  \/ \E h \in HS : ReadDone(h)
  \/ \E h \in HS : ReadFails(h)
  \/ \E h \in HS : TransportFault(h)
  \/ \E h \in HS : TimeoutElapsed(h)
  \/ \E h \in HS : UnmarkOngoingDone(h)

\* what the event loop is bound to run: the peer store answers, the poll of
\* waitForDirectConnection ends after its own limit, a timer fires. Nothing
\* bounds openStream or a read or write of the stream.
DeadlineFairness ==
  \A h \in HS :
    /\ WF_vars(IsOngoingDone(h))
    /\ WF_vars(MarkOngoingDone(h))
    /\ WF_vars(WaitForDirectConnectionDone(h[1]))
    /\ WF_vars(TimeoutElapsed(h))
    /\ WF_vars(UnmarkOngoingDone(h))

DeadlineSpec == Init /\ [][DeadlineNext]_vars /\ DeadlineFairness

\* ---------------------------------------------------------------- strings
\* a string is the sequence of its characters
Digit == << "0", "1", "2", "3", "4", "5", "6", "7", "8", "9" >>
IsDigit(ch) == \E i \in 1..Len(Digit) : Digit[i] = ch
DigitValue(ch) == (CHOOSE i \in 1..Len(Digit) : Digit[i] = ch) - 1

\* Number.prototype.toString / BigInt.prototype.toString of a natural number
RECURSIVE toString(_)
toString(n) ==
  IF n < 10 THEN << Digit[n + 1] >>
  ELSE toString(n \div 10) \o << Digit[(n % 10) + 1] >>

\* parseInt of a string of decimal digits
RECURSIVE parseInt(_)
parseInt(str) ==
  IF Len(str) = 0 THEN 0
  ELSE parseInt(SubSeq(str, 1, Len(str) - 1)) * 10 + DigitValue(str[Len(str)])

\* ---------------------------------------------------------------- epochs
MsPerSecond == 1000
Units == {"s", "m", "h", "d"}
SECONDS_PER_UNIT(unit) ==
  CASE unit = "s" -> 1 [] unit = "m" -> 60 [] unit = "h" -> 3600 [] unit = "d" -> 86400

\* regex.exec(interval) with /^(\d+)(s|m|h|d)$/ finds a match
Matches(interval) ==
  /\ Len(interval) >= 2
  /\ interval[Len(interval)] \in Units
  /\ \A i \in 1..(Len(interval) - 1) : IsDigit(interval[i])

\* parseInt(amount) * SECONDS_PER_UNIT[unit] of a matching interval
parseIntervalSeconds(interval) ==
  parseInt(SubSeq(interval, 1, Len(interval) - 1))
    * SECONDS_PER_UNIT(interval[Len(interval)])

\* what `x % 0` and everything computed from it prints as
NaN == << "N", "a", "N" >>

\* (mutant) epochs counted from the creation of the Sketcher, half a second
\* after a full second of Unix time, instead of from the Unix epoch
calculateEpochSinceStart(interval, t) ==
  IF ~Matches(interval) THEN [threw |-> TRUE, epoch |-> << >>]
  ELSE LET intervalSeconds == parseIntervalSeconds(interval)
           elapsed == IF t < 500 THEN 0 ELSE (t - 500) \div MsPerSecond
       IN [threw |-> FALSE,
           epoch |-> IF intervalSeconds = 0 THEN NaN
                     ELSE toString(elapsed - (elapsed % intervalSeconds))]

\* Sketcher.calculateEpoch(interval) when Date.now() = t: throws on an interval
\* that does not match, else the aligned epoch as a string
calculateEpoch(interval, t) ==
  IF ~Matches(interval) THEN [threw |-> TRUE, epoch |-> << >>]
  ELSE LET intervalSeconds == parseIntervalSeconds(interval)
           currentTimestamp == t \div MsPerSecond
       IN [threw |-> FALSE,
           epoch |-> IF intervalSeconds = 0 THEN NaN
                     ELSE toString(currentTimestamp - (currentTimestamp % intervalSeconds))]

\* ---------------------------------------------------------------- sketcher in time
\* the configuration of the modality: new Sketcher({wifi: {epochInterval: "1s"}})
config == [epochInterval |-> << "1", "s" >>]

\* Date.now() advances by this much between two runs of the event loop
TickMs == 500

\* (mutant) a sketch counts as valid at the instant it expires
isValidInclusive(i) == now <= sketchObj[i].expiresAt

\* Sketch.isValid: Date.now() < this.expiresAt
isValid(i) == now < sketchObj[i].expiresAt

\* Sketcher.getCurrentSketch(modality): the stored sketch if it is valid, else
\* undefined (0)
GetCurrentSketch == IF sketchMap # 0 /\ isValid(sketchMap) THEN sketchMap ELSE 0

\* Sketch.clearExpiryTimer: clearTimeout(this.expiryTimer); a timer that has
\* fired or was cleared stays as it is
clearExpiryTimer(objs, i) ==
  IF objs[i].timer = "armed" THEN [objs EXCEPT ![i].timer = "cleared"] ELSE objs

\* the expire listener of Shimmer, run by dispatchEvent: starts
\* rendezvous.withdraw(sketch.tags) and does not await it
expireListener(i) == [withdraws EXCEPT ![i].started = @ + 1]

\* time passes
Tick ==
  /\ now + TickMs <= MaxTicks * TickMs
  /\ now' = now + TickMs
  /\ UNCHANGED << sketchMap, call, sketchObj, withdraws, destroyCalls >>
  /\ UNCHANGED << psiVars, epochVars, tagVars, restVars, exchVars >>

\* Sketcher.sketch(modality, items) is invoked and runs to `await minHash(...)`:
\* a stored sketch gets its expire event (the listener runs inside dispatchEvent)
\* and its timer cleared, and stays in the map; epoch and expiresAt are computed
sketchBegins(c) ==
  /\ call[c].st = "idle"
  /\ \A d \in SketchCalls : d < c => call[d].st # "idle"
  /\ LET existing == sketchMap
         epoch == calculateEpoch(config.epochInterval, now).epoch
         intervalSeconds == parseIntervalSeconds(config.epochInterval)
         expiresAt == (parseInt(epoch) + intervalSeconds) * MsPerSecond
     IN /\ IF existing # 0
           THEN /\ sketchObj' = clearExpiryTimer(
                                  [sketchObj EXCEPT ![existing].expire = @ + 1], existing)
                /\ withdraws' = expireListener(existing)
           ELSE UNCHANGED << sketchObj, withdraws >>
        /\ call' = [call EXCEPT ![c] = [st |-> "hashing", existing |-> existing,
                                        epoch |-> epoch, expiresAt |-> expiresAt]]
  /\ UNCHANGED << now, sketchMap, destroyCalls >>
  /\ UNCHANGED << psiVars, epochVars, tagVars, restVars, exchVars >>

\* `await minHash(...)` and `await LSH(...)` have completed (the hashing touches
\* nothing of the Sketcher): the Sketch is created, its timer armed for
\* expiresAt - Date.now(), it is stored in the map and the sketch event dispatched
sketchResumes(c) ==
  /\ call[c].st = "hashing"
  /\ sketchObj' = [sketchObj EXCEPT ![c] =
                     [made |-> TRUE, epoch |-> call[c].epoch,
                      expiresAt |-> call[c].expiresAt, timer |-> "armed",
                      expire |-> 0, announced |-> 1]]
  /\ sketchMap' = c
  /\ call' = [call EXCEPT ![c].st = "done"]
  /\ UNCHANGED << now, withdraws, destroyCalls >>
  /\ UNCHANGED << psiVars, epochVars, tagVars, restVars, exchVars >>

\* the setTimeout callback of sketch i runs, at expiresAt or later: if the map
\* still holds this sketch, its expire event is dispatched and it is removed
expiryTimerFires(i) ==
  /\ sketchObj[i].timer = "armed"
  /\ now >= sketchObj[i].expiresAt
  /\ IF sketchMap = i
     THEN /\ sketchObj' = [sketchObj EXCEPT ![i].timer = "fired", ![i].expire = @ + 1]
          /\ withdraws' = expireListener(i)
          /\ sketchMap' = 0
     ELSE /\ sketchObj' = [sketchObj EXCEPT ![i].timer = "fired"]
          /\ UNCHANGED << withdraws, sketchMap >>
  /\ UNCHANGED << now, call, destroyCalls >>
  /\ UNCHANGED << psiVars, epochVars, tagVars, restVars, exchVars >>

\* Sketcher.destroy(): clearExpiryTimer of every sketch in the map, then
\* this.sketches.clear()
destroy ==
  /\ destroyCalls < MaxDestroys
  /\ destroyCalls' = destroyCalls + 1
  /\ sketchObj' = IF sketchMap # 0 THEN clearExpiryTimer(sketchObj, sketchMap)
                  ELSE sketchObj
  /\ sketchMap' = 0
  /\ UNCHANGED << now, call, withdraws >>
  /\ UNCHANGED << psiVars, epochVars, tagVars, restVars, exchVars >>

\* a rendezvous.withdraw started by the expire listener settles
withdrawSettles(i) ==
  /\ withdraws[i].done < withdraws[i].started
  /\ withdraws' = [withdraws EXCEPT ![i].done = @ + 1]
  /\ UNCHANGED << now, sketchMap, call, sketchObj, destroyCalls >>
  /\ UNCHANGED << psiVars, epochVars, tagVars, restVars, exchVars >>

SketcherNext ==
  \/ Tick
  \/ \E c \in SketchCalls : sketchBegins(c)
  \/ \E c \in SketchCalls : sketchResumes(c)
  \/ \E i \in SketchCalls : expiryTimerFires(i)
  \/ destroy
  \/ \E i \in SketchCalls : withdrawSettles(i)

SketcherSpec == Init /\ [][SketcherNext]_vars

\* ---------------------------------------------------------------- calculateEpoch
\* epochInterval strings: well-formed ones of every unit, one of zero length,
\* and malformed ones
Intervals ==
  { << "1", "s" >>, << "2", "s" >>, << "1", "0", "s" >>, << "1", "m" >>,
    << "1", "h" >>, << "1", "d" >>, << "0", "s" >>, << "5" >>, << "m" >>,
    << "5", "x" >>, << >> }

\* instants (Date.now(), in ms) at both ends of seconds around the boundaries
\* of the windows of these intervals
Seconds == {0, 1, 2, 3, 9, 10, 19, 20, 59, 60, 119, 120, 3599, 3600, 86399, 86400}
Instants == { sec * MsPerSecond + ms : sec \in Seconds, ms \in {0, 999} }

\* Sketcher s calls calculateEpoch(epochInterval) at instant t (one call of each
\* Sketcher in a behaviour: further calls reach no other states)
calculateEpochCalled(s, t) ==
  /\ ~epochRun[s].done
  /\ epochRun' = [epochRun EXCEPT ![s] =
       [done |-> TRUE, at |-> t,
        threw |-> calculateEpoch(epochCfg[s], t).threw,
        epoch |-> calculateEpoch(epochCfg[s], t).epoch]]
  /\ UNCHANGED epochCfg
  /\ UNCHANGED << psiVars, sketcherVars, tagVars, restVars, exchVars >>

EpochInit ==
  /\ PsiInit /\ SketcherInit /\ TagIdle /\ RestIdle
  /\ epochCfg \in [Slots -> Intervals]
  /\ epochRun = [s \in Slots |-> NoEpochRun]

EpochNext == \E s \in Slots, t \in Instants : calculateEpochCalled(s, t)

EpochSpec == EpochInit /\ [][EpochNext]_vars

\* ---------------------------------------------------------------- hashing
\* the characters of the strings that are hashed
Alphabet == << "|", ":", "0", "1", "2", "3", "4", "5", "6", "7", "8", "9",
               "b", "w", "x", "y" >>
Code(ch) == CHOOSE i \in 1..Len(Alphabet) : Alphabet[i] = ch

\* args.join("|"); the join of a single argument is the argument
RECURSIVE Join(_)
Join(args) ==
  IF Len(args) = 0 THEN << >>
  ELSE IF Len(args) = 1 THEN args[1]
  ELSE args[1] \o << "|" >> \o Join(Tail(args))

\* a total order of strings
RECURSIVE Before(_, _)
Before(str, other) ==
  IF Len(other) = 0 THEN FALSE
  ELSE IF Len(str) = 0 THEN TRUE
  ELSE IF str[1] # other[1] THEN Code(str[1]) < Code(other[1])
  ELSE Before(Tail(str), Tail(other))

\* what Sketcher.sketch gets: modalities, item lists, instants
Modalities == { << "w" >>, << "b" >> }
ItemNames == { << "x" >>, << "y" >> }
ItemLists ==
  { << >>, << << "x" >> >>, << << "x" >>, << "y" >> >>,
    << << "y" >>, << "x" >> >>, << << "x" >>, << "y" >>, << "x" >> >> }
TagInstants == {0, 500, 1000}

\* (mutant) the salt does not include the epoch
saltWithoutEpoch(modality, epoch) == modality

\* `${modality}:${epoch}`
saltOf(modality, epoch) == modality \o << ":" >> \o epoch

\* every string that minHash hashes
Hashed ==
  { Join(<< item, saltOf(m, calculateEpoch(config.epochInterval, t).epoch),
            toString(i) >>) :
      item \in ItemNames, m \in Modalities, t \in TagInstants, i \in 0..MaxK }

\* the width of the integer that sha256biguint64 takes from the digest (in the
\* code 64 bits; the initial value of a signature entry has 4 bits more)
HashBits == 8

\* SHA-256 is modelled as collision-free on the strings that are hashed: the
\* digest's leading integer is a distinct value of HashBits bits for each
DigestInt ==
  [str \in Hashed |->
     (Cardinality({ o \in Hashed : Before(o, str) }) * 37 + 11) % (2 ^ HashBits)]

\* sha256biguint64(...args): the leading integer of the digest of the join
sha256biguint64(args) == DigestInt[Join(args)]

\* sha256base64url(...args): the base64url text of the digest of the join: a
\* collision-free digest in an injective encoding
sha256base64url(args) == [sha256 |-> Join(args)]

Min(set) == CHOOSE v \in set : \A w \in set : v <= w

\* (mutant) entry i is the hash of the last item
minHashLastItem(items, k, salt) ==
  [i \in 1..k |->
     IF Len(items) = 0 THEN 2 ^ (HashBits + 4) - 1
     ELSE sha256biguint64(<< items[Len(items)], salt, toString(i - 1) >>)]

\* minHash(items, k, salt): entry i is the least of 0xffff_fffff_ffff_ffffn and
\* sha256biguint64(item, salt, i.toString()) over the items
minHash(items, k, salt) ==
  [i \in 1..k |->
     Min({ 2 ^ (HashBits + 4) - 1 } \cup
         { sha256biguint64(<< items[j], salt, toString(i - 1) >>) :
             j \in 1..Len(items) })]

\* (mutant) no divisibility check: rows is rounded down
lshTagsUnchecked(signature, bands, salt) ==
  LET rows == IF bands = 0 THEN 0 ELSE Len(signature) \div bands
      preImages ==
        [i \in 1..bands |->
           sha256base64url(<< salt, toString(i - 1) >> \o
             [j \in 1..rows |-> toString(signature[(i - 1) * rows + j])])]
  IN [threw |-> FALSE,
      preImages |-> preImages,
      publicTags |-> [i \in 1..bands |-> sha256base64url(<< preImages[i] >>)]]

\* lshTags(signature, bands, salt): throws unless signature.length / bands is an
\* integer (x / 0 is Infinity or NaN); else one pre-image and one public tag per
\* band
lshTags(signature, bands, salt) ==
  LET isInteger == bands # 0 /\ \E r \in 0..Len(signature) : r * bands = Len(signature)
      rows == Len(signature) \div bands
      preImages ==
        [i \in 1..bands |->
           sha256base64url(<< salt, toString(i - 1) >> \o
             [j \in 1..rows |-> toString(signature[(i - 1) * rows + j])])]
  IN IF ~isInteger
     THEN [threw |-> TRUE, preImages |-> << >>, publicTags |-> << >>]
     ELSE [threw |-> FALSE,
           preImages |-> preImages,
           publicTags |-> [i \in 1..bands |-> sha256base64url(<< preImages[i] >>)]]

\* Sketcher s runs the tag computation of sketch(modality, items) at instant t:
\* epoch, salt, minHash, lshTags (one computation of each Sketcher in a
\* behaviour: further ones reach no other states)
tagsComputed(s, modality, items, t) ==
  /\ ~tagRun[s].done
  /\ LET epoch == calculateEpoch(config.epochInterval, t).epoch
         salt == saltOf(modality, epoch)
         signature == minHash(items, tagCfg[s].k, salt)
         tags == lshTags(signature, tagCfg[s].bands, salt)
     IN tagRun' = [tagRun EXCEPT ![s] =
          [done |-> TRUE, modality |-> modality, items |-> items, at |-> t,
           salt |-> salt, signature |-> signature, threw |-> tags.threw,
           publicTags |-> tags.publicTags, preImages |-> tags.preImages]]
  /\ UNCHANGED tagCfg
  /\ UNCHANGED << psiVars, sketcherVars, epochVars, restVars, exchVars >>

TagInit ==
  /\ PsiInit /\ SketcherInit /\ EpochIdle /\ RestIdle
  /\ tagCfg \in [Slots -> [k : 0..MaxK, bands : 0..MaxBands]]
  /\ tagRun = [s \in Slots |-> NoTagRun]

TagNext ==
  \E s \in Slots, modality \in Modalities, items \in ItemLists, t \in TagInstants :
    tagsComputed(s, modality, items, t)

TagSpec == TagInit /\ [][TagNext]_vars

\* ---------------------------------------------------------------- digest input
\* the argument lists of a hash call: two or three strings, each an item or a
\* modality with or without the separator, a salt `${modality}:${epoch}` or an
\* index
ArgLists ==
  LET Parts == { << "x" >>, << "y" >>, << "x", "|", "y" >>, << "0" >>,
                 << "w", ":", "0" >>, << "y", "|", "w", ":", "0" >> }
  IN { << p, q >> : p \in Parts, q \in Parts } \cup
     { << p, q, r >> : p \in Parts, q \in Parts, r \in Parts }

\* caller s calls sha256biguint64(...args) or sha256base64url(...args): the
\* bytes that are digested are the encoding of args.join("|")
sha256Called(s, args) ==
  /\ ~joinRun[s].done
  /\ joinRun' = [joinRun EXCEPT ![s] =
       [done |-> TRUE, args |-> args, input |-> Join(args)]]
  /\ UNCHANGED << psiVars, sketcherVars, epochVars, tagVars, exchVars >>
  /\ UNCHANGED << clock, peerMap, lastOp, ops,
                  rdvNow, sketchOf, rdvRegistry, annCall, discCall >>

JoinNext == \E s \in Slots, args \in ArgLists : sha256Called(s, args)

JoinSpec == Init /\ [][JoinNext]_vars

\* ---------------------------------------------------------------- peer registry in time
\* the defaults of isClose and cleanupOldSketches; maxSketches is 10 in the
\* code and is scaled to the number of local sketches of the model
gracePeriodMs == 60000
maxSketches == 2

\* the keys of a Map in insertion order, or the items of a list, as a set
Elements(seq) == { seq[j] : j \in 1..Len(seq) }

\* (mutant) the grace period includes its last instant
isCloseInclusive(peer, grace, t) ==
  \E i \in Elements(peer.sketches) :
    t < ExpiresAt[i] \/ t - ExpiresAt[i] <= grace

\* ProximityPeer.isClose(gracePeriodMs) at instant t: some sketch is valid
\* (Sketch.isValid: Date.now() < expiresAt) or expired less than the grace ago
isClose(peer, grace, t) ==
  \E i \in Elements(peer.sketches) :
    t < ExpiresAt[i] \/ t - ExpiresAt[i] < grace

\* (mutant) the second pass keeps the sketches that were added first
cleanupKeepsFirstAdded(peer, grace, max, t) ==
  LET recent == SelectSeq(peer.sketches, LAMBDA i : ~(t - ExpiresAt[i] > grace))
      kept == { recent[j] : j \in 1..Len(recent) } \cap
              { recent[j] : j \in 1..max }
      deleted == Elements(peer.sketches) \ (IF Len(recent) > max THEN kept ELSE Elements(recent))
  IN [peer EXCEPT
        !.sketches = SelectSeq(@, LAMBDA i : i \notin deleted),
        !.psiResults = [i \in LocalSketches |-> IF i \in deleted THEN NoResult ELSE @[i]]]

\* ProximityPeer.cleanupOldSketches(gracePeriodMs, maxSketches) at instant t:
\* the first pass deletes the sketches that expired more than the grace period
\* ago; the second, if more than maxSketches are left, sorts them by expiresAt,
\* latest first (Array.prototype.sort is stable: equal ones stay in insertion
\* order), and deletes those from position maxSketches on; a deleted sketch's
\* PSI result is deleted with it
cleanupOldSketches(peer, grace, max, t) ==
  LET recent == SelectSeq(peer.sketches, LAMBDA i : ~(t - ExpiresAt[i] > grace))
      IndexOf(i) == CHOOSE j \in 1..Len(recent) : recent[j] = i
      position(i) ==
        Cardinality({ o \in Elements(recent) :
          \/ ExpiresAt[o] > ExpiresAt[i]
          \/ ExpiresAt[o] = ExpiresAt[i] /\ IndexOf(o) < IndexOf(i) })
      kept == { i \in Elements(recent) : position(i) < max }
      deleted == Elements(peer.sketches) \ (IF Len(recent) > max THEN kept ELSE Elements(recent))
  IN [peer EXCEPT
        !.sketches = SelectSeq(@, LAMBDA i : i \notin deleted),
        !.psiResults = [i \in LocalSketches |-> IF i \in deleted THEN NoResult ELSE @[i]]]

\* ProximityPeer.addSketch(sketch): Map.set keeps the position of a key that is
\* present and appends a new one; then cleanupOldSketches() with its defaults
addSketch(peer, i, t) ==
  cleanupOldSketches(
    [peer EXCEPT !.sketches = IF i \in Elements(@) THEN @ ELSE Append(@, i)],
    gracePeriodMs, maxSketches, t)

\* PeerRegistry.addPeer(peerInfo, sketch): get or create the peer, addSketch
RegistryAddPeer(map, p, i, t) ==
  [map EXCEPT ![p] = addSketch([@ EXCEPT !.known = TRUE], i, t)]

\* PeerRegistry.cleanup(): delete every peer that is not close
RegistryCleanup(map, t) ==
  [p \in Nodes |->
     IF map[p].known /\ ~isClose(map[p], gracePeriodMs, t) THEN NoPeer ELSE map[p]]

\* time passes, up to an instant at which something happens: the expiry of a
\* sketch, or the end of its grace period and the milliseconds next to it
Elapse ==
  /\ \E t \in {1000, 60999, 61000, 61001, 62001} : t > clock /\ clock' = t
  /\ lastOp' = [op |-> "elapse", peer |-> "none", sketch |-> 0]
  /\ UNCHANGED << peerMap, ops >>
  /\ UNCHANGED << psiVars, sketcherVars, epochVars, tagVars, exchVars >>
  /\ UNCHANGED << joinRun, rdvNow, sketchOf, rdvRegistry, annCall, discCall >>

\* Shimmer.discover, for a result of the rendezvous: the peer is added to the
\* registry under the sketch that was current when discover began
discovered(p, i) ==
  /\ ops < MaxOps /\ ops' = ops + 1
  /\ peerMap' = RegistryAddPeer(peerMap, p, i, clock)
  /\ lastOp' = [op |-> "addPeer", peer |-> p, sketch |-> i]
  /\ UNCHANGED clock
  /\ UNCHANGED << psiVars, sketcherVars, epochVars, tagVars, exchVars >>
  /\ UNCHANGED << joinRun, rdvNow, sketchOf, rdvRegistry, annCall, discCall >>

\* the psi:complete listener of Shimmer, for a handshake with p about sketch i
\* that completes now (result.completedAt is Date.now()): addPeer, then
\* setPSIResult, which is psiResults.set(sketch.id, result)
psiCompleted(p, i) ==
  /\ ops < MaxOps /\ ops' = ops + 1
  /\ peerMap' =
       LET added == RegistryAddPeer(peerMap, p, i, clock)
       IN [added EXCEPT ![p].psiResults[i] = [set |-> TRUE, completedAt |-> clock]]
  /\ lastOp' = [op |-> "psi:complete", peer |-> p, sketch |-> i]
  /\ UNCHANGED clock
  /\ UNCHANGED << psiVars, sketcherVars, epochVars, tagVars, exchVars >>
  /\ UNCHANGED << joinRun, rdvNow, sketchOf, rdvRegistry, annCall, discCall >>

\* the expire listener of Shimmer, for a local sketch that expires or is
\* superseded now: peerRegistry.cleanup()
sketchExpired ==
  /\ ops < MaxOps /\ ops' = ops + 1
  /\ peerMap' = RegistryCleanup(peerMap, clock)
  /\ lastOp' = [op |-> "expire", peer |-> "none", sketch |-> 0]
  /\ UNCHANGED clock
  /\ UNCHANGED << psiVars, sketcherVars, epochVars, tagVars, exchVars >>
  /\ UNCHANGED << joinRun, rdvNow, sketchOf, rdvRegistry, annCall, discCall >>

RegistryNext ==
  \/ Elapse
  \/ \E p \in Nodes, i \in LocalSketches : discovered(p, i)
  \/ \E p \in Nodes, i \in LocalSketches : psiCompleted(p, i)
  \/ sketchExpired

RegistrySpec == Init /\ [][RegistryNext]_vars

\* ---------------------------------------------------------------- rendezvous
\* the modality that is sketched, with k and bands of DEFAULTCONFIG scaled
RdvConfig == [modality |-> << "w" >>, k |-> 2, bands |-> 2]

\* a pre-image that no sketch has (the "dummy-wrong-preimage" of the test)
WrongPreImage == sha256base64url(<< << "0" >> >>)

\* encryptPeerInfo(peerInfo, preImage): AES-GCM under the key that HKDF derives
\* from the pre-image (the key derivation is modelled as collision-free)
encryptPeerInfo(peerInfo, preImage) == [plaintext |-> peerInfo, key |-> preImage]

\* (mutant) decryption does not authenticate the key
decryptWithAnyKey(encrypted, preImage) == encrypted.plaintext

\* decryptPeerInfo(encrypted, preImage): the peer info, or null ("none") when
\* AES-GCM rejects the key derived from the pre-image
decryptPeerInfo(encrypted, preImage) ==
  IF encrypted.key = preImage THEN encrypted.plaintext ELSE "none"

\* this.registry[publicTag]: the entries pushed under the tag, in order
EntriesOf(reg, publicTag) ==
  IF publicTag \in DOMAIN reg THEN reg[publicTag] ELSE << >>

\* the loop of discover from entry j of tag i on, up to the next entry that is
\* decrypted (i > number of tags: the loop is over): a tag without pre-image
\* and an entry that has expired are skipped
RECURSIVE NextDecrypt(_, _, _, _, _)
NextDecrypt(reg, tags, t, i, j) ==
  IF i > Len(tags.publicTags) THEN [i |-> i, j |-> 0]
  ELSE IF i > Len(tags.preImages) THEN NextDecrypt(reg, tags, t, i + 1, 1)
  ELSE IF j > Len(EntriesOf(reg, tags.publicTags[i]))
       THEN NextDecrypt(reg, tags, t, i + 1, 1)
  ELSE IF EntriesOf(reg, tags.publicTags[i])[j].expiresAt <= t
       THEN NextDecrypt(reg, tags, t, i, j + 1)
  ELSE [i |-> i, j |-> j]

\* time passes
rdvElapse ==
  /\ rdvNow = 0 /\ rdvNow' = 1000
  /\ UNCHANGED << sketchOf, rdvRegistry, annCall, discCall >>
  /\ UNCHANGED << psiVars, sketcherVars, epochVars, tagVars, exchVars >>
  /\ UNCHANGED << joinRun, clock, peerMap, lastOp, ops >>

\* rendezvous.announce(tags, peerInfo, expiresAt) runs to its first
\* `await encryptPeerInfo(...)`, or returns when there is no tag
announceCalled(a, sk) ==
  [annCall EXCEPT ![a] =
     IF Len(sk.tags.publicTags) = 0
     THEN [st |-> "done", i |-> 0] ELSE [st |-> "encrypt", i |-> 1]]

\* Sketcher.sketch(modality, items) of node p completes: the Sketch with its
\* tags and expiresAt is stored and the sketch event dispatched; the
\* auto-announce listener calls announceSketch(sketch)
sketchAnnounced(p, items) ==
  /\ ~sketchOf[p].made
  /\ LET epoch == calculateEpoch(config.epochInterval, rdvNow).epoch
         intervalSeconds == parseIntervalSeconds(config.epochInterval)
         expiresAt == (parseInt(epoch) + intervalSeconds) * MsPerSecond
         salt == saltOf(RdvConfig.modality, epoch)
         signature == minHash(items, RdvConfig.k, salt)
         tags == lshTags(signature, RdvConfig.bands, salt)
     IN sketchOf' = [sketchOf EXCEPT ![p] =
          [made |-> TRUE, items |-> items, expiresAt |-> expiresAt,
           tags |-> [publicTags |-> tags.publicTags, preImages |-> tags.preImages]]]
  /\ annCall' = announceCalled(<< p, "auto" >>, sketchOf'[p])
  /\ UNCHANGED << rdvNow, rdvRegistry, discCall >>
  /\ UNCHANGED << psiVars, sketcherVars, epochVars, tagVars, exchVars >>
  /\ UNCHANGED << joinRun, clock, peerMap, lastOp, ops >>

\* Shimmer.announce(modality) of node p: announceSketch of the current sketch
\* (getCurrentSketch gives a sketch only while it is valid)
announceManually(p) ==
  /\ sketchOf[p].made /\ rdvNow < sketchOf[p].expiresAt
  /\ annCall[<< p, "manual" >>].st = "idle"
  /\ annCall' = announceCalled(<< p, "manual" >>, sketchOf[p])
  /\ UNCHANGED << rdvNow, sketchOf, rdvRegistry, discCall >>
  /\ UNCHANGED << psiVars, sketcherVars, epochVars, tagVars, exchVars >>
  /\ UNCHANGED << joinRun, clock, peerMap, lastOp, ops >>

\* `await encryptPeerInfo(...)` of call a has completed: the entry is pushed
\* under tag i, and the loop goes on to the next tag or ends
announceResumes(a) ==
  /\ annCall[a].st = "encrypt"
  /\ LET sk == sketchOf[a[1]]
         i == annCall[a].i
         publicTag == sk.tags.publicTags[i]
         entry == [encryptedPeerInfo |-> encryptPeerInfo(a[1], sk.tags.preImages[i]),
                   expiresAt |-> sk.expiresAt]
     IN /\ rdvRegistry' =
             IF publicTag \in DOMAIN rdvRegistry
             THEN [rdvRegistry EXCEPT ![publicTag] = Append(@, entry)]
             ELSE rdvRegistry @@ (publicTag :> << entry >>)
        /\ annCall' = [annCall EXCEPT ![a] =
             IF i + 1 > Len(sk.tags.publicTags)
             THEN [st |-> "done", i |-> 0] ELSE [st |-> "encrypt", i |-> i + 1]]
  /\ UNCHANGED << rdvNow, sketchOf, discCall >>
  /\ UNCHANGED << psiVars, sketcherVars, epochVars, tagVars, exchVars >>
  /\ UNCHANGED << joinRun, clock, peerMap, lastOp, ops >>

\* the tags a caller passes to discover: a node passes the tags of its current
\* sketch (Shimmer.discover); the outsider c passes the public tags of a node's
\* sketch with wrong pre-images
CallerTags(caller) ==
  IF caller \in Nodes
  THEN IF sketchOf[caller].made /\ rdvNow < sketchOf[caller].expiresAt
       THEN { sketchOf[caller].tags } ELSE {}
  ELSE { [publicTags |-> sketchOf[q].tags.publicTags,
          preImages |-> [i \in 1..Len(sketchOf[q].tags.publicTags) |-> WrongPreImage]] :
           q \in { n \in Nodes : sketchOf[n].made } }

\* rendezvous.discover(tags) is called and runs to its first
\* `await decryptPeerInfo(...)`, or returns when nothing is to be decrypted
discoverBegins(d, caller) ==
  /\ discCall[d].st = "idle"
  /\ \A e \in DiscCalls : e < d => discCall[e].st # "idle"
  /\ \E tags \in CallerTags(caller) :
       LET next == NextDecrypt(rdvRegistry, tags, rdvNow, 1, 1)
       IN discCall' = [discCall EXCEPT ![d] =
            [st |-> IF next.i > Len(tags.publicTags) THEN "done" ELSE "decrypt",
             caller |-> caller, tags |-> tags, now |-> rdvNow,
             i |-> next.i, j |-> next.j, results |-> << >>]]
  /\ UNCHANGED << rdvNow, sketchOf, rdvRegistry, annCall >>
  /\ UNCHANGED << psiVars, sketcherVars, epochVars, tagVars, exchVars >>
  /\ UNCHANGED << joinRun, clock, peerMap, lastOp, ops >>

\* `await decryptPeerInfo(...)` of call d has completed: a decrypted entry is
\* pushed to the results, and the loop goes on to the next entry or returns
discoverResumes(d) ==
  /\ discCall[d].st = "decrypt"
  /\ LET c == discCall[d]
         publicTag == c.tags.publicTags[c.i]
         entry == EntriesOf(rdvRegistry, publicTag)[c.j]
         decrypted == decryptPeerInfo(entry.encryptedPeerInfo, c.tags.preImages[c.i])
         results == IF decrypted # "none"
                    THEN Append(c.results, [peerInfo |-> decrypted, publicTag |-> publicTag])
                    ELSE c.results
         next == NextDecrypt(rdvRegistry, c.tags, c.now, c.i, c.j + 1)
     IN discCall' = [discCall EXCEPT ![d] =
          [c EXCEPT !.st = IF next.i > Len(c.tags.publicTags) THEN "done" ELSE "decrypt",
                    !.i = next.i, !.j = next.j, !.results = results]]
  /\ UNCHANGED << rdvNow, sketchOf, rdvRegistry, annCall >>
  /\ UNCHANGED << psiVars, sketcherVars, epochVars, tagVars, exchVars >>
  /\ UNCHANGED << joinRun, clock, peerMap, lastOp, ops >>

RendezvousNext ==
  \/ rdvElapse
  \/ \E p \in Nodes, items \in { << >>, << << "x" >> >>, << << "x" >>, << "y" >> >> } :
       sketchAnnounced(p, items)
  \/ \E p \in Nodes : announceManually(p)
  \/ \E a \in AnnCalls : announceResumes(a)
  \/ \E d \in DiscCalls, caller \in Peers : discoverBegins(d, caller)
  \/ \E d \in DiscCalls : discoverResumes(d)

RendezvousSpec == Init /\ [][RendezvousNext]_vars

\* ---------------------------------------------------------------- PSI handles
\* The classes PSIServer and PSIClient wrap a server / client of the PSI
\* library: the field is the library object, or null once it was deleted. A
\* handle of the model has the field (live), and whether its last operation
\* has run on it (used).
\* new PSIServer() / new PSIClient(): psi.server!.createWithNewKey()
newHandle(kind) == [kind |-> kind, live |-> TRUE, used |-> FALSE]

\* PSIClient.createRequest(items): throws on a deleted client
createRequest(client, items) == [threw |-> ~client.live, handle |-> client]

\* (mutant) the client is deleted in the library only: the field stays
getIntersectionSizeKeepsClient(client) ==
  [threw |-> ~client.live, handle |-> [client EXCEPT !.used = TRUE]]

\* PSIClient.getIntersectionSize(setup, response): throws on a deleted client;
\* else this.client.delete() and this.client = null
getIntersectionSize(client) ==
  [threw |-> ~client.live,
   handle |-> IF client.live THEN [client EXCEPT !.live = FALSE, !.used = TRUE]
              ELSE client]

\* PSIServer.createSetup(items, numClientElements): throws on a deleted
\* server and on an empty item list
createSetup(server, items) ==
  [threw |-> ~server.live \/ Len(items) = 0, handle |-> server]

\* PSIServer.processRequest(request): throws on a deleted server; else
\* this.server.delete() and this.server = null
processRequest(server) ==
  [threw |-> ~server.live,
   handle |-> IF server.live THEN [server EXCEPT !.live = FALSE, !.used = TRUE]
              ELSE server]

\* what the library's getIntersectionSize returns for a request made of
\* clientItems and a setup made of serverItems: the number of the client's
\* items that the server has
intersectionSize(clientItems, serverItems) ==
  Cardinality({ j \in 1..Len(clientItems) : clientItems[j] \in Elements(serverItems) })

\* ---------------------------------------------------------------- exchange
\* One stream between node "a" (initiatePSI, side "I") and node "b"
\* (handleIncomingPSI, side "H"), without transport faults and deadlines: which
\* sketches and which handles the two roles of each end use, and the result.
SideNode(s) == IF s = "I" THEN "a" ELSE "b"

\* Sketcher.getCurrentSketch(modality) of node n: the sketch that was stored
\* last (0: none); the sketches stay valid during the exchange
currentSketch(n) ==
  LET ids == { i \in SketchCalls : sketchLog[i].made /\ sketchLog[i].node = n }
  IN IF ids = {} THEN 0 ELSE CHOOSE i \in ids : \A j \in ids : j <= i

\* Sketcher.sketch(modality, items) of node n completes: the new Sketch (with a
\* fresh id) replaces the stored one
sketchStored(n, items) ==
  /\ \E i \in SketchCalls :
       /\ ~sketchLog[i].made
       /\ \A j \in SketchCalls : j < i => sketchLog[j].made
       /\ sketchLog' = [sketchLog EXCEPT ![i] =
            [made |-> TRUE, node |-> n, items |-> items]]
  /\ UNCHANGED << handles, role, lastCall >>
  /\ UNCHANGED << psiVars, sketcherVars, epochVars, tagVars, restVars >>

\* actAsClient(lp, stream, remotePeerId, sketch) up to `await lp.read()`: a new
\* PSIClient, createRequest(sketch.items), and the request is written
requesterBegins(s, sk) ==
  /\ handles' = Append(handles, createRequest(newHandle("client"), sketchLog[sk].items).handle)
  /\ role' = [role EXCEPT ![s].st = "cRead", ![s].sketch = sk,
                          ![s].client = Len(handles) + 1]

\* initiatePSI(peer, sketch) of node "a", up to the lp.read of its requester
\* role; the sketch is one that the caller got from the Sketcher earlier
initiated(sk) ==
  /\ role["I"].st = "idle"
  /\ sketchLog[sk].made /\ sketchLog[sk].node = SideNode("I")
  /\ requesterBegins("I", sk)
  /\ UNCHANGED << sketchLog, lastCall >>
  /\ UNCHANGED << psiVars, sketcherVars, epochVars, tagVars, restVars >>

\* actAsServer: lp.read has delivered the request of the other end;
\* getCurrentSketch(request.modality) (none: throw), a new PSIServer,
\* createSetup(items, items.length) (empty: throw), processRequest, and the
\* response is written
responderServes(s) ==
  /\ role[s].st = IF s = "I" THEN "sRead" ELSE "idle"
  /\ role[Other(s)].client # 0
  /\ LET sk == currentSketch(SideNode(s))
         id == Len(handles) + 1
         setup == createSetup(newHandle("server"), sketchLog[sk].items)
         response == processRequest(setup.handle)
     IN IF sk = 0
        THEN /\ role' = [role EXCEPT ![s].st = "failed"]
             /\ UNCHANGED handles
        ELSE IF setup.threw
        THEN /\ handles' = Append(handles, setup.handle)
             /\ role' = [role EXCEPT ![s].st = "failed", ![s].server = id]
        ELSE /\ handles' = Append(handles, response.handle)
             /\ role' = [role EXCEPT ![s].st = "sWrite", ![s].served = sk,
                                     ![s].server = id]
  /\ UNCHANGED << sketchLog, lastCall >>
  /\ UNCHANGED << psiVars, sketcherVars, epochVars, tagVars, restVars >>

\* the lp.write of the response has completed and actAsServer returns. The
\* initiator's psiExecution returns its result: the race resolves and
\* psi:complete is dispatched with the sketch of initiatePSI. The acceptor goes
\* on: usedSketch = getCurrentSketch(modality) (none: throw), then its
\* requester role
responderReturns(s) ==
  /\ role[s].st = "sWrite"
  /\ IF s = "I"
     THEN /\ role' = [role EXCEPT ![s].st = "done", ![s].event = role[s].sketch]
          /\ UNCHANGED handles
     ELSE IF currentSketch(SideNode(s)) = 0
     THEN /\ role' = [role EXCEPT ![s].st = "failed"]
          /\ UNCHANGED handles
     ELSE requesterBegins(s, currentSketch(SideNode(s)))
  /\ UNCHANGED << sketchLog, lastCall >>
  /\ UNCHANGED << psiVars, sketcherVars, epochVars, tagVars, restVars >>

\* actAsClient: lp.read has delivered the response of the other end;
\* getIntersectionSize, similarity = intersectionSize / ourItems.length * 100
\* (0 / 0 is NaN), and the PSIResult is returned. The acceptor's psiExecution
\* returns it: the race resolves and psi:complete is dispatched with usedSketch.
\* The initiator goes on to its responder role.
requesterFinishes(s) ==
  /\ role[s].st = "cRead"
  /\ role[Other(s)].served # 0
  /\ LET ourItems == sketchLog[role[s].sketch].items
         size == intersectionSize(ourItems, sketchLog[role[Other(s)].served].items)
         got == getIntersectionSize(handles[role[s].client])
         result == [set |-> TRUE, intersectionSize |-> size,
                    totalItems |-> Len(ourItems), isNaN |-> Len(ourItems) = 0,
                    similarity |-> IF Len(ourItems) = 0 THEN 0
                                   ELSE (size * 100) \div Len(ourItems)]
     IN /\ handles' = [handles EXCEPT ![role[s].client] = got.handle]
        /\ role' = [role EXCEPT ![s] =
             IF got.threw THEN [@ EXCEPT !.st = "failed"]
             ELSE IF s = "I" THEN [@ EXCEPT !.st = "sRead", !.result = result]
             ELSE [@ EXCEPT !.st = "done", !.result = result,
                            !.event = role[s].sketch]]
  /\ UNCHANGED << sketchLog, lastCall >>
  /\ UNCHANGED << psiVars, sketcherVars, epochVars, tagVars, restVars >>

\* the other end has thrown in a role and aborted the stream: the pending
\* lp.read of this end rejects
streamReset(s) ==
  /\ role[Other(s)].st = "failed"
  /\ role[s].st \in {"cRead", "sRead"}
  /\ role' = [role EXCEPT ![s].st = "failed"]
  /\ UNCHANGED << sketchLog, handles, lastCall >>
  /\ UNCHANGED << psiVars, sketcherVars, epochVars, tagVars, restVars >>

\* a method of a handle is called from outside the role that created it (the
\* handle of a role that is suspended is out of reach: it is a local variable)
handleCalled(id, op) ==
  /\ lastCall.handle = 0
  /\ id \in 1..Len(handles)
  /\ \A s \in Sides : role[s].st = "cRead" => role[s].client # id
  /\ handles[id].kind = IF op \in {"createSetup", "processRequest"}
                        THEN "server" ELSE "client"
  /\ LET out == CASE op = "createSetup" -> createSetup(handles[id], << << "x" >> >>)
                  [] op = "processRequest" -> processRequest(handles[id])
                  [] op = "createRequest" -> createRequest(handles[id], << << "x" >> >>)
                  [] op = "getIntersectionSize" -> getIntersectionSize(handles[id])
     IN /\ handles' = [handles EXCEPT ![id] = out.handle]
        /\ lastCall' = [handle |-> id, op |-> op, used |-> handles[id].used,
                        threw |-> out.threw]
  /\ UNCHANGED << sketchLog, role >>
  /\ UNCHANGED << psiVars, sketcherVars, epochVars, tagVars, restVars >>

ExchangeNext ==
  \/ \E n \in Nodes, items \in { << >>, << << "x" >> >>, << << "y" >> >>,
                                  << << "x" >>, << "y" >> >> } : sketchStored(n, items)
  \/ \E sk \in SketchCalls : initiated(sk)
  \/ \E s \in Sides : responderServes(s)
  \/ \E s \in Sides : responderReturns(s)
  \/ \E s \in Sides : requesterFinishes(s)
  \/ \E s \in Sides : streamReset(s)
  \/ \E id \in 1..4, op \in {"createSetup", "processRequest", "createRequest",
                               "getIntersectionSize"} : handleCalled(id, op)

ExchangeSpec == Init /\ [][ExchangeNext]_vars

\* ---------------------------------------------------------------- properties
Errors == {"already", "open", "transport", "malformed", "nosketch", "timeout"}
Invoked(c) == conn[c] # NoCall
SameTarget(c, d) == Invoked(c) /\ Invoked(d) /\ conn[c] = conn[d]
Opposite(c, d) ==
  Invoked(c) /\ Invoked(d) /\ conn[c].from = conn[d].to /\ conn[c].to = conn[d].from
\* the handshake got past the ongoing check and has not returned yet
InFlight(h) == pc[h] \in {"mark", "wait", "open", "race"}
Returned(h) == pc[h] = "done"
\* the step in which the handshake returns to its caller
Returns(h) == pc[h] # "done" /\ pc'[h] = "done"

\* C1 (as claimed): single-flight under concurrency. Of two invocations of
\* initiatePSI for the same remote peer that overlap in time, at most one is past
\* the ongoing check (marking, opening its stream or running the exchange).
C1_SingleFlight ==
  \A c, d \in Calls :
    (c # d /\ SameTarget(c, d)) => ~(InFlight(<<c, "I">>) /\ InFlight(<<d, "I">>))

\* C2 (as claimed): an attempt rejected as already ongoing leaves the peer's
\* marker as it is, and the marker is only ever cleared by the return of a
\* handshake that had set it.
C2_RejectedLeavesMarker ==
  [][ /\ \A h \in HS :
           (outcome[h] = "already" /\ Returns(h)) =>
             ongoing'[NodeOf(h)][PeerOf(h)] = ongoing[NodeOf(h)][PeerOf(h)]
      /\ \A n, p \in Nodes :
           (ongoing[n][p] /\ ~ongoing'[n][p]) =>
             \E h \in HS : NodeOf(h) = n /\ PeerOf(h) = p /\ marked[h] /\ Returns(h)
    ]_vars

\* C3: a handshake that set the ongoing marker of its peer returns, on every exit
\* path, with that marker cleared.
C3_MarkerClearedOnReturn ==
  [][ \A h \in HS :
        (marked[h] /\ Returns(h)) => ~ongoing'[NodeOf(h)][PeerOf(h)] ]_vars

\* C3 witness: handshakes that had set the marker have returned, one of them after
\* its deadline fired, and the marker is clear.
C3_Witness ==
  \E h \in HS :
    /\ marked[h] /\ Returned(h) /\ outcome[h] = "timeout"
    /\ marked[Remote(h)] /\ Returned(Remote(h)) /\ outcome[Remote(h)] \in Errors
    /\ ~ongoing[NodeOf(h)][PeerOf(h)]

\* C4: psi:complete is emitted, and the handshake resolves with a result, exactly
\* when both of its rounds succeeded; it is emitted at most once, and a handshake
\* that fails with fewer than two rounds done emits nothing and rejects with the
\* error.
C4_CompleteOnlyOnFullSuccess ==
  \A h \in HS :
    /\ emitted[h] <= 1
    /\ emitted[h] = 1 <=> outcome[h] = "result"
    /\ outcome[h] = "result" <=> (rounds[h] = 2 /\ outcome[h] \notin {"none", "timeout"})
    /\ outcome[h] = "result" => exec[h] = "ok"
    /\ (exec[h] = "failed" /\ outcome[h] # "none") => (outcome[h] \in Errors /\ emitted[h] = 0)

\* C4 witness: a handshake failed on the transport after its first round and
\* before its second round finished, and has returned without an event.
C4_Witness ==
  \E h \in HS :
    /\ rounds[h] = 1 /\ exec[h] = "failed" /\ Returned(h)
    /\ outcome[h] = "transport" /\ emitted[h] = 0

\* C5 (as claimed): a stream end is closed exactly once: close / abort is never
\* invoked on it a second time, and a returned handshake that had a stream has
\* invoked it once.
C5_ClosedExactlyOnce ==
  \A h \in HS :
    /\ closeCalls[h] + abortCalls[h] <= 1
    /\ (Returned(h) /\ pc[<<h[1], "H">>] # "idle") => closeCalls[h] + abortCalls[h] = 1

\* C6: a handshake whose deadline fired before both rounds finished has rejected
\* with the timeout error and emits no psi:complete, at the deadline or later,
\* whatever the abandoned exchange goes on to do.
C6_NoResultAfterTimeout ==
  \A h \in HS :
    outcome[h] = "timeout" => (emitted[h] = 0 /\ pc[h] \in {"unmark", "done"})

\* C6 witness: the deadline fired, the handshake returned, and the abandoned
\* exchange then ran to its end.
C6_Witness ==
  \E h \in HS :
    outcome[h] = "timeout" /\ Returned(h) /\ exec[h] = "ok" /\ rounds[h] = 2

\* C7 (as claimed): the step in which the deadline fires aborts the stream, and
\* after it the timed-out exchange takes no step: no read, no write, no PSI
\* computation.
C7_NoStepAfterTimeout ==
  [][ \A h \in HS :
        /\ (outcome[h] # "timeout" /\ outcome'[h] = "timeout") =>
             abortCalls'[h] = abortCalls[h] + 1
        /\ outcome[h] = "timeout" =>
             (exec'[h] = exec[h] /\ rd'[h] = rd[h] /\ frames'[h[1]] = frames[h[1]])
    ]_vars

\* C8 (as claimed): a handshake that failed by a malformed frame, a missing
\* sketch, a transport error or a timeout has, when it returns, invoked
\* stream.abort with the causing error.
C8_AbortWithCause ==
  \A h \in HS :
    (Returned(h) /\ outcome[h] \in {"malformed", "nosketch", "transport", "timeout"}) =>
      (abortCalls[h] >= 1 /\ abortErr[h] = outcome[h])

\* C9: with a single initiator, a reliable stream, valid sketches and no timeout,
\* the frames on the stream are always a prefix of: initiator's request,
\* acceptor's response, acceptor's request, initiator's response; no pending
\* stream operation can fail; and every invoked handshake leads to all four
\* frames written and both sides returned with a result.
C9_FixedOrder ==
  /\ [](\A c \in Calls : IsPrefix(frames[c], Expected))
  /\ [](\A h \in HS : (Reading(h) => ~ReadMayFail(h)) /\ (Writing(h) => ~WriteMayFail(h)))
  /\ \A c \in Calls :
       Invoked(c) ~> /\ frames[c] = Expected
                     /\ \A s \in Sides : Returned(<<c, s>>) /\ outcome[<<c, s>>] = "result"

\* C9 witness: a handshake has exchanged the four frames and both sides have
\* returned with a result.
C9_Witness ==
  \E c \in Calls :
    /\ frames[c] = Expected
    /\ \A s \in Sides : Returned(<<c, s>>) /\ outcome[<<c, s>>] = "result"

\* C10 (as claimed): when two peers initiate toward each other and each had set
\* its marker before the other's stream arrived, then without any disturbance at
\* least one of the two handshakes completes with a result on both ends.
C10_TieBroken ==
  \A c, d \in Calls :
    ( /\ c # d /\ Opposite(c, d)
      /\ arrived[c] /\ arrived[d]
      /\ faults = 0
      /\ \A h \in HS : Returned(h) )
    => \E e \in {c, d} : \A s \in Sides : outcome[<<e, s>>] = "result"

\* C11: handshakes are isolated by peer. The ongoing marker that node n keeps for
\* peer q is set or cleared only by a step of a handshake of n with q, and a
\* handshake with q is rejected as already ongoing only if another handshake of
\* the same node with the same peer q had set the marker: a handshake with a
\* different peer, in progress, failed or timed out, never causes it.
C11_PeerIsolation ==
  /\ [](\A h \in HS :
          outcome[h] = "already" =>
            \E g \in HS \ {h} :
              NodeOf(g) = NodeOf(h) /\ PeerOf(g) = PeerOf(h) /\ marked[g])
  /\ [][ \A n, q \in Peers :
           ongoing'[n][q] # ongoing[n][q] =>
             \E h \in HS : /\ NodeOf(h) = n /\ PeerOf(h) = q
                            /\ pc[h] \in {"mark", "unmark"} /\ pc'[h] # pc[h] ]_vars

\* C11 witness: on node "a" the handshake with "b" has timed out and its marker
\* is still set, while the handshake with "c" got past the ongoing check, set its
\* own marker and is running.
C11_Witness ==
  \E h, g \in HS :
    /\ NodeOf(h) = "a" /\ PeerOf(h) = "b" /\ outcome[h] = "timeout"
    /\ ongoing["a"]["b"]
    /\ NodeOf(g) = "a" /\ PeerOf(g) = "c" /\ marked[g] /\ InFlight(g)

\* C12: a step of a handshake that fails or times out (the step in which it
\* fails, and every later step of it) leaves the sketch map of every Sketcher
\* and the whole PeerRegistry (entries, retained sketches, PSI results of every
\* peer) as they were.
C12_FailureLeavesState ==
  [][ \A h \in HS :
        ( /\ outcome'[h] \in Errors
          /\ << pc'[h], exec'[h], outcome'[h] >> # << pc[h], exec[h], outcome[h] >> )
        => (sketches' = sketches /\ registry' = registry) ]_vars

\* C12 witness: a handshake has timed out and returned on a node whose registry
\* holds a peer with a PSI result of an earlier handshake and whose Sketcher
\* holds a sketch.
C12_Witness ==
  \E h \in HS :
    /\ outcome[h] = "timeout" /\ Returned(h)
    /\ sketches[NodeOf(h)] # 0
    /\ \E p \in Peers : registry[NodeOf(h)][p].psiResults # {}

\* C13 (as claimed): whenever a new sketch replaces a sketch that is stored in
\* the map, the replaced sketch has had its expire event, and the withdraw that
\* the event triggers has been started, before the step that installs the new
\* sketch and dispatches its sketch event.
C13_ExpireBeforeInstall ==
  [][ \A e \in SketchCalls :
        (sketchMap = e /\ sketchMap' \notin {0, e}) =>
          (sketchObj[e].expire >= 1 /\ withdraws[e].started >= 1) ]_vars

\* C14 (as claimed): no Sketch receives more than one expire event.
C14_AtMostOneExpire == \A i \in SketchCalls : sketchObj[i].expire <= 1

\* C15 (as claimed), in the form a finite run refutes: while destroy() has not
\* been called, a sketch that was announced by a sketch event and is no longer
\* the sketch of the map has received its expire event (a sketch that left the
\* map is never stored again, and only the stored sketch is ever expired).
C15_AnnouncedSketchExpires ==
  destroyCalls = 0 =>
    \A i \in SketchCalls :
      (sketchObj[i].announced >= 1 /\ sketchMap # i) => sketchObj[i].expire >= 1

\* C16: getCurrentSketch returns the sketch stored in the map exactly when
\* now < expiresAt, and nothing once now >= expiresAt, whatever the state of the
\* expiry timer and whether or not destroy was called.
C16_CurrentOnlyBeforeExpiry ==
  sketchMap # 0 =>
    /\ now < sketchObj[sketchMap].expiresAt => GetCurrentSketch = sketchMap
    /\ now >= sketchObj[sketchMap].expiresAt => GetCurrentSketch = 0

\* C16 witness: the stored sketch has reached expiresAt exactly, its timer is
\* armed and has not fired, destroy was not called, and getCurrentSketch
\* returns nothing.
C16_Witness ==
  /\ sketchMap # 0
  /\ now = sketchObj[sketchMap].expiresAt
  /\ sketchObj[sketchMap].timer = "armed"
  /\ destroyCalls = 0
  /\ GetCurrentSketch = 0

\* C17 (as claimed): a destroy() leaves the map empty and no expiry timer of
\* any sketch armed, and a destroy() that follows a destroy() changes nothing.
C17_DestroyClearsAll ==
  [][ destroyCalls' > destroyCalls =>
        /\ sketchMap' = 0
        /\ \A i \in SketchCalls : sketchObj'[i].timer # "armed"
        /\ (destroyCalls >= 1 /\ sketchMap = 0) =>
             (sketchObj' = sketchObj /\ withdraws' = withdraws) ]_vars

\* the window of instant t for an interval of secs seconds
Window(t, secs) == (t \div MsPerSecond) \div secs
\* a well-formed interval of a positive length
ValidInterval(interval) == Matches(interval) /\ parseIntervalSeconds(interval) > 0

\* C18: for a valid interval, calculateEpoch returns floor(now_s / interval_s) *
\* interval_s; two Sketchers with the same interval get the same epoch at
\* instants of the same aligned window and different epochs at instants of
\* adjacent windows: the value depends on the interval and the Unix time only.
C18_EpochAligned ==
  /\ \A s \in Slots :
       (epochRun[s].done /\ ValidInterval(epochCfg[s])) =>
         LET secs == parseIntervalSeconds(epochCfg[s])
         IN /\ ~epochRun[s].threw
            /\ epochRun[s].epoch = toString(Window(epochRun[s].at, secs) * secs)
  /\ \A s, r \in Slots :
       ( /\ epochRun[s].done /\ epochRun[r].done
         /\ epochCfg[s] = epochCfg[r] /\ ValidInterval(epochCfg[s]) ) =>
         LET secs == parseIntervalSeconds(epochCfg[s])
             ws == Window(epochRun[s].at, secs)
             wr == Window(epochRun[r].at, secs)
         IN /\ ws = wr => epochRun[s].epoch = epochRun[r].epoch
            /\ (ws = wr + 1 \/ wr = ws + 1) => epochRun[s].epoch # epochRun[r].epoch

\* C18 witness: two Sketchers with interval "1m", one called in the last
\* millisecond of the window [60, 120), the other in the first millisecond of
\* [120, 180): the epochs are 60 and 120.
C18_Witness ==
  /\ epochCfg[1] = << "1", "m" >> /\ epochCfg[2] = << "1", "m" >>
  /\ epochRun[1].done /\ epochRun[1].at = 119999 /\ epochRun[1].epoch = << "6", "0" >>
  /\ epochRun[2].done /\ epochRun[2].at = 120000
  /\ epochRun[2].epoch = << "1", "2", "0" >>

\* C19: lshTags on a signature of length k throws exactly when k is not
\* divisible by bands, and when it returns, publicTags and preImages have
\* exactly `bands` entries each.
C19_ThrowsIffNotDivisible ==
  \A s \in Slots :
    tagRun[s].done =>
      LET k == tagCfg[s].k
          bands == tagCfg[s].bands
      IN /\ Len(tagRun[s].signature) = k
         /\ tagRun[s].threw <=> ~(bands # 0 /\ k % bands = 0)
         /\ ~tagRun[s].threw =>
              (Len(tagRun[s].publicTags) = bands /\ Len(tagRun[s].preImages) = bands)

\* C19 witness: a Sketcher with k = 3 and bands = 2 has got the error, one with
\* k = 4 and bands = 2 has got two public tags and two pre-images.
C19_Witness ==
  /\ tagCfg[1] = [k |-> 3, bands |-> 2] /\ tagRun[1].done /\ tagRun[1].threw
  /\ tagCfg[2] = [k |-> 4, bands |-> 2] /\ tagRun[2].done /\ ~tagRun[2].threw
  /\ Len(tagRun[2].publicTags) = 2 /\ Len(tagRun[2].preImages) = 2

\* the epoch of a tag computation
EpochOf(s) == calculateEpoch(config.epochInterval, tagRun[s].at).epoch

\* C20: two tag computations for the same modality and the same items in
\* different epochs have no public tag in common.
C20_EpochIsolation ==
  \A s, r \in Slots :
    ( /\ tagRun[s].done /\ ~tagRun[s].threw
      /\ tagRun[r].done /\ ~tagRun[r].threw
      /\ tagRun[s].modality = tagRun[r].modality
      /\ tagRun[s].items = tagRun[r].items
      /\ EpochOf(s) # EpochOf(r) ) =>
      \A i \in 1..Len(tagRun[s].publicTags), j \in 1..Len(tagRun[r].publicTags) :
        tagRun[s].publicTags[i] # tagRun[r].publicTags[j]

\* C20 witness: the items x, y sketched for the same modality with k = 4 and
\* bands = 2 in epoch 0 and in epoch 1: two public tags each.
C20_Witness ==
  /\ \A s \in Slots :
       /\ tagCfg[s] = [k |-> 4, bands |-> 2]
       /\ tagRun[s].done /\ ~tagRun[s].threw
       /\ tagRun[s].modality = << "w" >>
       /\ tagRun[s].items = << << "x" >>, << "y" >> >>
       /\ Len(tagRun[s].publicTags) = 2
  /\ tagRun[1].at = 500 /\ tagRun[2].at = 1000

\* C21: two Sketchers with the same modality config that sketch the same set of
\* items for the same modality in the same epoch get the same signature, the
\* same pre-images and the same public tags, whatever the order of the items and
\* however often an item is repeated
C21_SameSetSameSketch ==
  \A s1, s2 \in Slots :
    ( /\ tagRun[s1].done /\ tagRun[s2].done
      /\ tagCfg[s1] = tagCfg[s2]
      /\ tagRun[s1].modality = tagRun[s2].modality
      /\ EpochOf(s1) = EpochOf(s2)
      /\ Elements(tagRun[s1].items) = Elements(tagRun[s2].items) )
    => /\ tagRun[s1].signature = tagRun[s2].signature
       /\ tagRun[s1].threw = tagRun[s2].threw
       /\ tagRun[s1].preImages = tagRun[s2].preImages
       /\ tagRun[s1].publicTags = tagRun[s2].publicTags

\* both Sketchers made tags of the items x and y, one from the list x, y, x and
\* the other from the list y, x, at different instants of one epoch
C21_Witness ==
  /\ tagRun[1].done /\ tagRun[2].done
  /\ tagCfg[1] = tagCfg[2] /\ tagCfg[1].k = 2 /\ tagCfg[1].bands = 2
  /\ tagRun[1].modality = tagRun[2].modality
  /\ tagRun[1].items = << << "x" >>, << "y" >>, << "x" >> >>
  /\ tagRun[2].items = << << "y" >>, << "x" >> >>
  /\ tagRun[1].at = 0 /\ tagRun[2].at = 500
  /\ ~tagRun[1].threw
  /\ tagRun[1].publicTags = tagRun[2].publicTags
  /\ Len(tagRun[1].publicTags) = 2

\* C22 (as claimed): the signature of a tag computation has k entries; entry i is
\* the least keyed hash of an item with the salt and i - 1; every entry is an
\* unsigned integer of the hash's width; and for an empty item list every entry
\* is the greatest such integer (in the code 2^64 - 1).
C22_SlotsAreHashWidth ==
  \A s \in Slots :
    tagRun[s].done =>
      /\ Len(tagRun[s].signature) = tagCfg[s].k
      /\ \A i \in 1..tagCfg[s].k :
           /\ tagRun[s].signature[i] \in 0..(2 ^ HashBits - 1)
           /\ tagRun[s].items # << >> =>
                tagRun[s].signature[i] =
                  Min({ sha256biguint64(<< item, tagRun[s].salt, toString(i - 1) >>) :
                          item \in Elements(tagRun[s].items) })
           /\ tagRun[s].items = << >> => tagRun[s].signature[i] = 2 ^ HashBits - 1

\* C23 (as claimed): two hash calls with different argument lists never digest
\* the same input.
C23_UnambiguousEncoding ==
  \A s1, s2 \in Slots :
    (joinRun[s1].done /\ joinRun[s2].done /\ joinRun[s1].args # joinRun[s2].args)
      => joinRun[s1].input # joinRun[s2].input

\* C24: a peer that retains no sketch is not close; a peer that retains a valid
\* sketch is close; a peer whose only retained sketch expired t >= 0
\* milliseconds ago is close exactly when t is less than the grace period.
C24_IsCloseBoundary ==
  \A p \in Nodes, grace \in {0, 1000, gracePeriodMs} :
    LET peer == peerMap[p]
    IN /\ peer.sketches = << >> => ~isClose(peer, grace, clock)
       /\ (\E i \in Elements(peer.sketches) : clock < ExpiresAt[i])
            => isClose(peer, grace, clock)
       /\ \A i \in LocalSketches :
            (peer.sketches = << i >> /\ clock - ExpiresAt[i] >= 0) =>
              (isClose(peer, grace, clock) <=> clock - ExpiresAt[i] < grace)

\* the only sketch of a registered peer expired exactly the default grace
\* period ago, and the peer is not close
C24_Witness ==
  /\ peerMap["a"].known
  /\ peerMap["a"].sketches = << 1 >>
  /\ clock - ExpiresAt[1] = gracePeriodMs
  /\ ~isClose(peerMap["a"], gracePeriodMs, clock)
  /\ isClose(peerMap["a"], gracePeriodMs, clock - 1)

\* C25: after addPeer / addSketch the peer retains at most maxSketches
\* sketches; a sketch that is deleted although it did not expire more than the
\* grace period ago is deleted because of the count: then maxSketches sketches
\* are kept, none of the kept ones expires before a deleted one, and the
\* deleted one's PSI result is deleted too (the psi:complete listener writes
\* the result of its own sketch after addPeer has returned).
C25_AtMostMaxSketches ==
  [][ \A p \in Nodes, i \in LocalSketches :
        ( /\ lastOp'.op \in {"addPeer", "psi:complete"}
          /\ lastOp'.peer = p /\ lastOp'.sketch = i ) =>
          LET old == Elements(peerMap[p].sketches) \cup {i}
              new == Elements(peerMap'[p].sketches)
              evicted == { e \in old \ new : ~(clock - ExpiresAt[e] > gracePeriodMs) }
          IN /\ Len(peerMap'[p].sketches) <= maxSketches
             /\ new \subseteq old
             /\ evicted # {} =>
                  /\ Len(peerMap'[p].sketches) = maxSketches
                  /\ \A e \in evicted, k \in new : ExpiresAt[k] >= ExpiresAt[e]
             /\ \A e \in evicted :
                  (lastOp'.op = "addPeer" \/ e # i) =>
                    peerMap'[p].psiResults[e] = NoResult ]_vars

\* a peer that retained sketches 3 and 4 was discovered under sketch 1, which
\* expires first: sketch 1 was added and deleted again because of the count
C25_Witness ==
  /\ lastOp = [op |-> "addPeer", peer |-> "a", sketch |-> 1]
  /\ clock = 0
  /\ peerMap["a"].sketches = << 3, 4 >>
  /\ peerMap["a"].psiResults[1] = NoResult

\* C26 (as claimed): after the expire listener has run, no registered peer
\* retains a sketch (with or without its PSI result) that expired more than the
\* grace period ago, and every registered peer is close.
C26_ExpireEvictsOldSketches ==
  lastOp.op = "expire" =>
    \A p \in Nodes :
      peerMap[p].known =>
        /\ \A i \in Elements(peerMap[p].sketches) : ~(clock - ExpiresAt[i] > gracePeriodMs)
        /\ isClose(peerMap[p], gracePeriodMs, clock)

\* C27 (as claimed), for a sketch that is valid: a PSI result that is recorded
\* for a peer and a sketch is never replaced by a different result.
C27_ResultNeverReplaced ==
  [][ \A p \in Nodes, i \in LocalSketches :
        ( /\ peerMap[p].psiResults[i].set /\ peerMap'[p].psiResults[i].set
          /\ clock < ExpiresAt[i] ) =>
          peerMap'[p].psiResults[i] = peerMap[p].psiResults[i] ]_vars

\* C28 (as claimed): a sketch of an empty item list is neither announced nor
\* used for discovery, so that discover never returns, to a node that sketched
\* an empty list, another node that sketched an empty list.
C28_EmptySketchesNeverMatch ==
  \A d \in DiscCalls :
    \A n \in 1..Len(discCall[d].results) :
      LET caller == discCall[d].caller
          found == discCall[d].results[n].peerInfo
      IN ~( /\ caller \in Nodes /\ found # caller
            /\ sketchOf[caller].items = << >>
            /\ sketchOf[found].items = << >> )

\* C29: discover returns a peer only for a tag under which the peer announced
\* and whose pre-image, as the peer's sketch has it, the caller passed with the
\* tag; a caller that passes a node's public tags with other pre-images gets no
\* result.
C29_OnlyWithPreImage ==
  \A d \in DiscCalls :
    LET c == discCall[d]
    IN /\ \A n \in 1..Len(c.results) :
            LET r == c.results[n]
                theirs == sketchOf[r.peerInfo].tags
            IN \E i \in 1..Len(c.tags.preImages), k \in 1..Len(theirs.publicTags) :
                 /\ c.tags.publicTags[i] = r.publicTag
                 /\ theirs.publicTags[k] = r.publicTag
                 /\ theirs.preImages[k] = c.tags.preImages[i]
       /\ c.caller \notin Nodes => c.results = << >>

\* the outsider's discover finds two entries under the first public tag; the
\* first one has been decrypted with the wrong pre-image and gave no result
C29_Witness ==
  /\ discCall[1].caller = "c"
  /\ discCall[1].st = "decrypt"
  /\ discCall[1].i = 1 /\ discCall[1].j = 2
  /\ discCall[1].results = << >>
  /\ Len(EntriesOf(rdvRegistry, discCall[1].tags.publicTags[1])) >= 2

\* C30 (as claimed): the result of discover holds each peer at most once.
C30_EachPeerOnce ==
  \A d \in DiscCalls :
    \A m, n \in 1..Len(discCall[d].results) :
      m # n => discCall[d].results[m].peerInfo # discCall[d].results[n].peerInfo

\* C32 (as claimed): when the responder role of a handshake finds no current
\* sketch for the requested modality (actAsServer throws and aborts with the
\* no-sketch error), that handshake writes no response frame for the request
\* and emits no psi:complete, and the initiatePSI of the stream, once it has
\* settled, has rejected with the no-sketch error.
C32_NoSketchReachesCaller ==
  \A h \in HS :
    abortErr[h] = "nosketch" =>
      /\ emitted[h] = 0
      /\ Len(SelectSeq(frames[h[1]], LAMBDA f : f = << h[2], "resp" >>)) = 0
      /\ outcome[<< h[1], "I" >>] \in {"none", "nosketch"}

\* C35 (as claimed): getCurrentSketch never returns a sketch whose expire event
\* has been dispatched.
C35_ExpiredNeverCurrent ==
  \A i \in SketchCalls : sketchObj[i].expire >= 1 => GetCurrentSketch # i

\* C37 (as claimed): every sketch that a peer of the registry has a PSI result
\* for is a sketch the peer retains.
C37_ResultsOfRetainedSketches ==
  \A p \in Nodes, i \in LocalSketches :
    peerMap[p].psiResults[i].set => i \in Elements(peerMap[p].sketches)

\* C39 (as claimed): calculateEpoch throws for an interval whose amount is
\* zero, and an epoch that it returns is the decimal text of a multiple of the
\* interval's positive length.
C39_ZeroIntervalRejected ==
  \A s \in Slots :
    (epochRun[s].done /\ Matches(epochCfg[s])) =>
      LET secs == parseIntervalSeconds(epochCfg[s])
      IN /\ secs = 0 => epochRun[s].threw
         /\ ~epochRun[s].threw =>
              /\ secs > 0
              /\ \A n \in 1..Len(epochRun[s].epoch) : IsDigit(epochRun[s].epoch[n])
              /\ parseInt(epochRun[s].epoch) % secs = 0

\* C34 (as claimed): every handshake that has set the ongoing marker
\* eventually returns with the marker cleared, whatever the remote peer and
\* the transport do.
C34_MarkedEventuallyCleared ==
  \A h \in HS :
    marked[h] ~> (Returned(h) /\ ~ongoing[NodeOf(h)][PeerOf(h)])

\* C38 (as claimed): no deadline timer of a handshake that has returned is
\* armed.
C38_TimerCancelledOnReturn ==
  \A h \in HS : Returned(h) => deadline[h] # "armed"

C33_SimilarityWellDefined ==
  \A s \in Sides :
    role[s].event # 0 =>
      LET r == role[s].result
      IN /\ r.set
         /\ r.totalItems = Len(sketchLog[role[s].event].items)
         /\ r.totalItems > 0
         /\ ~r.isNaN
         /\ r.similarity * r.totalItems = r.intersectionSize * 100
         /\ r.similarity \in 0..100

\* C36 (as claimed): an end of the stream that has played both roles used the
\* same sketch in both, and the psi:complete it dispatches carries that sketch
\* and a result whose totalItems is the number of its items.
C36_OneSketchPerHandshake ==
  \A s \in Sides :
    /\ (role[s].sketch # 0 /\ role[s].served # 0) => role[s].sketch = role[s].served
    /\ role[s].event # 0 =>
         /\ role[s].event = role[s].sketch
         /\ role[s].event = role[s].served
         /\ role[s].result.totalItems = Len(sketchLog[role[s].event].items)

====
